---- MODULE Spec2Model ----
(***************************************************************************)
(* A model of five parts of the satori video SDK:                          *)
(*  - satori::video::bot_instance (src/src/bot_instance.cpp): the          *)
(*    frame-batch handler, the control-message handler, message stamping,  *)
(*    configure() and the shutdown generator of run_bot()  (Spec, FairSpec)*)
(*  - the standalone recorder (src/unnamed/part_003): video_stream and     *)
(*    run_standalone  (RecSpec, RecFairSpec)                               *)
(*  - rtm::channel_position (src/src/rtm_client.h): str() and parse()      *)
(*    (PosSpec)                                                            *)
(*  - rtm::resilient_client (src/unnamed/part_002): restart and replay     *)
(*    of subscriptions  (ResSpec)                                          *)
(*  - escape_slashes (src/unnamed/part_003)  (EscFairSpec)                 *)
(*                                                                         *)
(* JSON values (nlohmann::json) are tagged tuples, so that values of       *)
(* different JSON types can be told apart and compared:                    *)
(*   <<"null">>, <<"str", s>>, <<"num", n>>, <<"bool", b>>,                *)
(*   <<"arr", sequence of JSON>>, <<"obj", function from keys to JSON>>.   *)
(***************************************************************************)
EXTENDS Integers, Sequences, FiniteSets, TLC

(* ------------------------------ bounds -------------------------------- *)
\* longest frame batch fed to the bot
MaxBatchLen == 2
\* most queue_message calls one image callback invocation makes
MaxCbMsgs == 1

(* ------------------------------- JSON --------------------------------- *)
Null == <<"null">>
Str(s) == <<"str", s>>
Num(n) == <<"num", n>>
Bool(b) == <<"bool", b>>
Arr(s) == <<"arr", s>>
Obj(f) == <<"obj", f>>

is_null(j) == j[1] = "null"
is_object(j) == j[1] = "obj"
is_array(j) == j[1] = "arr"

\* nlohmann::json::object()
EmptyObject == Obj([k \in {} |-> Null])
\* msg.find(k) != msg.end(), for an object
Has(j, k) == k \in DOMAIN j[2]
\* msg[k], for an object that has k
Get(j, k) == j[2][k]
\* obj[k] = v: replaces the field or adds it
Put(j, k, v) == Obj([kk \in (DOMAIN j[2]) \cup {k} |-> IF kk = k THEN v ELSE j[2][kk]])

(* ------------------------------ frame ids ----------------------------- *)
FrameId(a, b) == [i1 |-> a, i2 |-> b]
ZeroId == FrameId(0, 0)

(* --------------------------- names of things -------------------------- *)
ANALYSIS == "ANALYSIS"
DEBUG == "DEBUG"
CONTROL == "CONTROL"
Kinds == {ANALYSIS, DEBUG, CONTROL}

BotIds == {"", "b1"}

\* a command with another action name
build_shutdown_command_stop == Obj([action |-> Str("stop")])
\* cmd = {{"action", "shutdown"}}
build_shutdown_command == Obj([action |-> Str("shutdown")])
\* cmd = object(); cmd["action"] = "configure"; cmd["body"] = config
build_configure_command(config) ==
    Put(Put(EmptyObject, "action", Str("configure")), "body", config)

(* ------------------------------ the inputs ---------------------------- *)
\* frame ids the decoder hands over; (0,5) has a zero component
FrameIds == {FrameId(20, 21), FrameId(0, 5)}
\* width, height and the stride of plane 0
Geometries == {[width |-> 0, height |-> 1, plane_strides |-> 0],
               [width |-> 1, height |-> 1, plane_strides |-> 4],
               [width |-> 1, height |-> 2, plane_strides |-> 4]}
Frame(id, g) == [id |-> id, width |-> g.width, height |-> g.height,
                 plane_strides |-> g.plane_strides]
Frames == {Frame(id, g) : id \in FrameIds, g \in Geometries}
\* the other alternative of owned_image_packet
MetadataPacket == [codec_name |-> "vp9"]
Packets == Frames \cup {MetadataPacket}
IsFrame(p) == "width" \in DOMAIN p
Geometry(f) == [width |-> f.width, height |-> f.height, plane_strides |-> f.plane_strides]
IsMessage(o) == "kind" \in DOMAIN o

SeqsUpTo(S, n) == UNION {[1..k -> S] : k \in 0..n}
Batches == SeqsUpTo(Packets, MaxBatchLen)

\* what a callback passes to queue_message
UserData == {Obj([x |-> Num(3)]),
             Obj([y |-> Num(4), from |-> Str("u"), i |-> Str("u")]),
             Str("oops")}
UserIds == {ZeroId, FrameId(7, 8), FrameId(-1, 0)}
\* the kinds an image callback sends; CONTROL messages come from the control handler
ImageKinds == {ANALYSIS, DEBUG}
QueueCalls == [kind : ImageKinds, data : UserData, id : UserIds]
CbScripts == SeqsUpTo(QueueCalls, MaxCbMsgs)

VARIABLES
    bot_id,            \* _bot_id
    has_ctrl,          \* whether _descriptor.ctrl_callback is set
    empty_bot,         \* whether the callbacks are those of test/empty_bot.cpp
    image_metadata,    \* _image_metadata
    message_buffer,    \* _message_buffer
    current_frame_id,  \* _current_frame_id
    aborted,           \* a CHECK failed or ABORT() ran: the process is gone
    phase,             \* where the pipeline is: created, running, ...
    shutdown_calls,    \* control callback invocations made by the shutdown generator
    shutdown_buf,      \* _message_buffer as the generator's init function left it
    shutdown_out,      \* what the generator has passed to on_next so far
    first_frame,       \* <<geometry of the first frame ever processed>>, or <<>>
    op,                \* the operation that ran last
    input,             \* its input
    input_left,        \* what it left in the input queue
    pre,               \* the bot's fields and the phase when it started
    out,               \* what it emitted downstream
    out_done,          \* whether it called on_complete downstream
    img_log,           \* the image callback invocations it made
    ctrl_log,          \* the control callback invocations it made
    queue_log,         \* the messages queue_message accepted in it
    rec,               \* the standalone recorder: see RecorderStart
    cp,                \* a channel_position being written and parsed: see PosInit
    rc,                \* a resilient client and its delegates: see ResInit
    es                 \* a call of escape_slashes: see EscInit

vars == <<bot_id, has_ctrl, empty_bot, image_metadata, message_buffer, current_frame_id,
          aborted, phase, shutdown_calls, shutdown_buf, shutdown_out, first_frame, op,
          input, input_left, pre, out, out_done, img_log, ctrl_log, queue_log, rec, cp,
          rc, es>>

\* the fields of the bot pipeline
botvars == <<bot_id, has_ctrl, empty_bot, image_metadata, message_buffer,
             current_frame_id, aborted, phase, shutdown_calls, shutdown_buf,
             shutdown_out, first_frame, op, input, input_left, pre, out, out_done,
             img_log, ctrl_log, queue_log>>
\* no recorder runs in the bot process
NoRecorder == [pc |-> "none"]
\* no channel position is handled
NoPosition == [pc |-> "none"]
\* no resilient client is used
NoClient == [pc |-> "none"]
\* no file name is escaped
NoText == [pc |-> "none"]

(* --------------------------- bot_instance ----------------------------- *)
\* The mutable part of a bot_instance, threaded through the methods below.
BotState == [buf |-> message_buffer, cur |-> current_frame_id,
             meta |-> image_metadata, dead |-> aborted,
             imgs |-> <<>>, ctrls |-> <<>>, queued |-> <<>>]

\* queue_message, lines 124-127
effective_frame_id(cur, id) ==
    IF id.i1 = 0 /\ id.i2 = 0 /\ cur.i1 # 0 /\ cur.i2 # 0 THEN cur ELSE id

\* a variant without the CHECK of line 122
queue_message_unchecked(b, kind, message, id) ==
    IF b.dead THEN b
    ELSE LET newmsg == [data |-> message, kind |-> kind,
                        id |-> effective_frame_id(b.cur, id)]
         IN [b EXCEPT !.buf = Append(@, newmsg), !.queued = Append(@, newmsg)]
\* queue_message, lines 120-133
queue_message(b, kind, message, id) ==
    IF b.dead THEN b
    ELSE IF ~is_object(message) THEN [b EXCEPT !.dead = TRUE]
    ELSE LET newmsg == [data |-> message, kind |-> kind,
                        id |-> effective_frame_id(b.cur, id)]
         IN [b EXCEPT !.buf = Append(@, newmsg), !.queued = Append(@, newmsg)]

\* set_current_frame_id, line 135
set_current_frame_id(b, id) == IF b.dead THEN b ELSE [b EXCEPT !.cur = id]

\* a variant that takes i1 = 0 for "no frame" too
StampI_positive(msg) ==
    IF msg.id.i1 > 0
    THEN [msg EXCEPT !.data = Put(@, "i", Arr(<<Num(msg.id.i1), Num(msg.id.i2)>>))]
    ELSE msg
\* the body of the loop of prepare_message_buffer_for_downstream, lines 258-264
StampI(msg) ==
    IF msg.id.i1 >= 0
    THEN [msg EXCEPT !.data = Put(@, "i", Arr(<<Num(msg.id.i1), Num(msg.id.i2)>>))]
    ELSE msg
StampFrom(msg) ==
    IF bot_id # ""
    THEN [msg EXCEPT !.data = Put(@, "from", Str(bot_id))]
    ELSE msg
Stamp(msg) == StampFrom(StampI(msg))

\* prepare_message_buffer_for_downstream, lines 242-266
prepare_message_buffer_for_downstream(b) ==
    IF b.dead THEN b
    ELSE IF \E k \in 1..Len(b.buf) : ~is_object(b.buf[k].data)
         THEN [b EXCEPT !.dead = TRUE]
         ELSE [b EXCEPT !.buf = [k \in 1..Len(b.buf) |-> Stamp(b.buf[k])]]

\* a variant that collects the first image frame only
extract_frame_first_only(e, p) ==
    IF e.b.dead \/ ~IsFrame(p) THEN e
    ELSE LET meta == e.b.meta
             differs == p.width # meta.width \/ p.height # meta.height
         IN IF differs /\ meta.width # 0
            THEN [e EXCEPT !.b.dead = TRUE]
            ELSE [b |-> [e.b EXCEPT !.meta = IF differs THEN Geometry(p) ELSE meta],
                  frames |-> IF e.frames = <<>> THEN <<[id |-> p.id]>> ELSE e.frames]
\* one pass of the loop of extract_frames, lines 141-169, over packet p;
\* e = [b: the bot state, frames: the image_frames collected so far]
extract_frame(e, p) ==
    IF e.b.dead \/ ~IsFrame(p) THEN e
    ELSE LET meta == e.b.meta
             differs == p.width # meta.width \/ p.height # meta.height
         IN IF differs /\ meta.width # 0
            THEN [e EXCEPT !.b.dead = TRUE]
            ELSE [b |-> [e.b EXCEPT !.meta =
                           IF differs
                           THEN Geometry(p)
                           ELSE meta],
                  frames |-> Append(e.frames, [id |-> p.id])]

RECURSIVE extract_loop(_, _, _)
extract_loop(e, packets, k) ==
    IF k > Len(packets) THEN e
    ELSE extract_loop(extract_frame(e, packets[k]), packets, k + 1)

\* extract_frames, lines 137-171
extract_frames(b, packets) == extract_loop([b |-> b, frames |-> <<>>], packets, 1)

\* the while loop of operator()(std::queue<owned_image_packet>&), lines 179-182;
\* q = [pp: the input queue, result: the output list]
\* a variant that puts each packet at the front of the list
RECURSIVE drain_queue_front(_)
drain_queue_front(q) ==
    IF q.pp = <<>> THEN q
    ELSE drain_queue_front([pp |-> Tail(q.pp), result |-> <<Head(q.pp)>> \o q.result])
RECURSIVE drain_queue(_)
drain_queue(q) ==
    IF q.pp = <<>> THEN q
    ELSE drain_queue([pp |-> Tail(q.pp), result |-> Append(q.result, Head(q.pp))])

\* The user's image callback as the bot environment wraps it: it sets the
\* current frame id to the last frame's id and the bot then calls
\* queue_message as its script says.
RECURSIVE run_script(_, _, _)
run_script(b, scr, k) ==
    IF k > Len(scr) THEN b
    ELSE run_script(queue_message(b, scr[k].kind, scr[k].data, scr[k].id), scr, k + 1)

img_callback(b, bframes, scr) ==
    LET b1 == set_current_frame_id(b, bframes[Len(bframes)].id)
        b2 == [b1 EXCEPT !.imgs = Append(@, [frames |-> bframes, script |-> scr])]
    IN run_script(b2, scr, 1)

\* a variant that copies the message buffer to the output and keeps it
OnBatch_keeps_buffer(b, pp, scr) ==
    LET q == drain_queue([pp |-> pp, result |-> <<>>])
        e == extract_frames(b, q.result)
    IN IF e.b.dead THEN [b |-> e.b, result |-> <<>>, pp |-> q.pp]
       ELSE IF e.frames # <<>>
            THEN LET b2 == img_callback(e.b, e.frames, scr)
                     b3 == prepare_message_buffer_for_downstream(b2)
                 IN IF b3.dead THEN [b |-> b3, result |-> <<>>, pp |-> q.pp]
                    ELSE [b |-> b3, result |-> q.result \o b3.buf, pp |-> q.pp]
            ELSE [b |-> e.b, result |-> q.result, pp |-> q.pp]
\* operator()(std::queue<owned_image_packet>&), lines 173-201
OnBatch(b, pp, scr) ==
    LET q == drain_queue([pp |-> pp, result |-> <<>>])
        e == extract_frames(b, q.result)
    IN IF e.b.dead THEN [b |-> e.b, result |-> <<>>, pp |-> q.pp]
       ELSE IF e.frames # <<>>
            THEN LET b2 == img_callback(e.b, e.frames, scr)
                     b3 == prepare_message_buffer_for_downstream(b2)
                 IN IF b3.dead THEN [b |-> b3, result |-> <<>>, pp |-> q.pp]
                    ELSE [b |-> [b3 EXCEPT !.buf = <<>>],
                          result |-> q.result \o b3.buf, pp |-> q.pp]
            ELSE [b |-> e.b, result |-> q.result, pp |-> q.pp]

\* _descriptor.ctrl_callback(*this, cmd) returning resp; calling an empty
\* callback ends the process
ctrl_callback(b, cmd, resp) ==
    IF b.dead THEN b
    ELSE [b EXCEPT !.dead = ~has_ctrl,
                   !.ctrls = Append(@, [cmd |-> cmd, response |-> resp,
                                        present |-> has_ctrl])]

\* the test of line 213
unsupported(msg) == ~is_object(msg) \/ ~Has(msg, "to")

\* variants of the test of line 218: with == for !=, and as "to differs from
\* a non-empty bot_id"
for_other_bot_same(msg) == bot_id = "" \/ Get(msg, "to") = Str(bot_id)
for_other_bot_nonempty(msg) == bot_id # "" /\ Get(msg, "to") # Str(bot_id)
\* the test of line 218
for_other_bot(msg) == bot_id = "" \/ Get(msg, "to") # Str(bot_id)

\* a variant that leaves the request_id out
with_request_id_dropped(msg, response) == response
\* lines 228-230
with_request_id(msg, response) ==
    IF Has(msg, "request_id") THEN Put(response, "request_id", Get(msg, "request_id"))
    ELSE response

\* operator()(nlohmann::json&) for a message that is no array, lines 213-239;
\* resps[n] is what the control callback answers to the n-th call made while
\* one control input is handled
OnControlOne(b, msg, resps) ==
    IF b.dead THEN [b |-> b, result |-> <<>>]
    ELSE IF unsupported(msg) THEN [b |-> b, result |-> <<>>]
    ELSE IF for_other_bot(msg) THEN [b |-> b, result |-> <<>>]
    ELSE LET resp == resps[Len(b.ctrls) + 1]
             b1 == ctrl_callback(b, msg, resp)
             b2 == IF b1.dead \/ is_null(resp) THEN b1
                   ELSE IF ~is_object(resp) THEN [b1 EXCEPT !.dead = TRUE]
                   ELSE queue_message(b1, CONTROL, with_request_id(msg, resp), ZeroId)
             b3 == prepare_message_buffer_for_downstream(b2)
         IN IF b3.dead THEN [b |-> b3, result |-> <<>>]
            ELSE [b |-> [b3 EXCEPT !.buf = <<>>], result |-> b3.buf]

\* operator()(nlohmann::json&), lines 203-240; an array is handled element by
\* element, lines 205-211
RECURSIVE OnControl(_, _, _)
\* a variant that leaves the loop at the first element that gives no output
RECURSIVE control_loop_until_empty(_, _, _, _)
control_loop_until_empty(acc, els, k, resps) ==
    IF k > Len(els) \/ acc.b.dead THEN acc
    ELSE LET r == OnControl(acc.b, els[k], resps)
         IN IF r.result = <<>> THEN [b |-> r.b, result |-> acc.result]
            ELSE control_loop_until_empty([b |-> r.b, result |-> acc.result \o r.result],
                                          els, k + 1, resps)
RECURSIVE control_loop(_, _, _, _)
control_loop(acc, els, k, resps) ==
    IF k > Len(els) \/ acc.b.dead THEN acc
    ELSE LET r == OnControl(acc.b, els[k], resps)
         IN control_loop([b |-> r.b, result |-> acc.result \o r.result], els, k + 1, resps)

OnControl(b, msg, resps) ==
    IF is_array(msg)
    THEN LET r == control_loop([b |-> b, result |-> <<>>], msg[2], 1, resps)
         IN IF r.b.dead THEN [b |-> r.b, result |-> <<>>] ELSE r
    ELSE OnControlOne(b, msg, resps)

\* a variant that passes a null config on as the body
configure_body_as_given(b, config, resp) ==
    IF ~has_ctrl
    THEN IF is_null(config) THEN b ELSE [b EXCEPT !.dead = TRUE]
    ELSE LET b1 == ctrl_callback(b, build_configure_command(config), resp)
         IN IF ~is_null(resp) THEN queue_message(b1, DEBUG, resp, ZeroId) ELSE b1
\* a variant that ignores a config given without a control callback
configure_lenient(b, config, resp) ==
    IF ~has_ctrl
    THEN b
    ELSE LET cmd == build_configure_command(IF ~is_null(config) THEN config
                                            ELSE EmptyObject)
             b1 == ctrl_callback(b, cmd, resp)
         IN IF ~is_null(resp) THEN queue_message(b1, DEBUG, resp, ZeroId) ELSE b1
\* configure, lines 268-284
configure(b, config, resp) ==
    IF ~has_ctrl
    THEN IF is_null(config) THEN b ELSE [b EXCEPT !.dead = TRUE]
    ELSE LET cmd == build_configure_command(IF ~is_null(config) THEN config
                                            ELSE EmptyObject)
             b1 == ctrl_callback(b, cmd, resp)
         IN IF ~is_null(resp) THEN queue_message(b1, DEBUG, resp, ZeroId) ELSE b1

\* a variant that queues an empty object for a null response
shutdown_init_always_queues(b, resp) ==
    LET b1 == IF has_ctrl
              THEN LET b0 == ctrl_callback(b, build_shutdown_command, resp)
                   IN queue_message(b0, DEBUG, IF is_null(resp) THEN EmptyObject ELSE resp,
                                    ZeroId)
              ELSE b
    IN prepare_message_buffer_for_downstream(b1)
\* the init function of shutdown_stream, lines 85-101
shutdown_init(b, resp) ==
    LET b1 == IF has_ctrl
              THEN LET b0 == ctrl_callback(b, build_shutdown_command, resp)
                   IN IF ~is_null(resp) THEN queue_message(b0, DEBUG, resp, ZeroId)
                      ELSE b0
              ELSE b
    IN prepare_message_buffer_for_downstream(b1)

\* a variant that takes the message at the back of the buffer
shutdown_pump_back(b) ==
    IF b.dead THEN [b |-> b, result |-> <<>>, done |-> FALSE]
    ELSE IF b.buf = <<>> THEN [b |-> b, result |-> <<>>, done |-> TRUE]
    ELSE [b |-> [b EXCEPT !.buf = SubSeq(@, 1, Len(@) - 1)],
          result |-> <<b.buf[Len(b.buf)]>>, done |-> FALSE]
\* the pump function of shutdown_stream, lines 102-113;
\* done: sink.on_complete() was called, result: what sink.on_next got
shutdown_pump(b) ==
    IF b.dead THEN [b |-> b, result |-> <<>>, done |-> FALSE]
    ELSE IF b.buf = <<>> THEN [b |-> b, result |-> <<>>, done |-> TRUE]
    ELSE [b |-> [b EXCEPT !.buf = Tail(@)], result |-> <<Head(b.buf)>>, done |-> FALSE]

(* ------------------------------ the inputs, ctd ------------------------ *)
\* longest control message that is an array
MaxArrayLen == 2

Configs == {Null, Obj([k |-> Num(1)])}
\* what the control callback answers
Responses == {Null,
              Obj([pong |-> Bool(TRUE)]),
              Obj([pong |-> Bool(TRUE), request_id |-> Str("u"), from |-> Str("u")]),
              Num(7)}
PlainControls ==
    {Num(5),
     Obj([action |-> Str("ping")]),
     Obj([to |-> Str("b2"), request_id |-> Str("r"), action |-> Str("ping")]),
     Obj([to |-> Str(""), request_id |-> Str("r"), action |-> Str("ping")]),
     Obj([to |-> Str("b1"), request_id |-> Str("r"), action |-> Str("ping")]),
     Obj([to |-> Str("b1"), action |-> Str("ping")])}
\* an array in an array: a dropped element and an addressed one, then another
NestedControl ==
    Arr(<<Arr(<<Num(5),
                Obj([to |-> Str("b1"), request_id |-> Str("r"), action |-> Str("ping")])>>),
          Obj([to |-> Str("b1"), action |-> Str("ping")])>>)
Controls == PlainControls \cup {Arr(s) : s \in SeqsUpTo(PlainControls, MaxArrayLen)}
                          \cup {NestedControl}
\* the elements of a control input that are no arrays, in the order the
\* handler meets them
RECURSIVE Leaves(_)
RECURSIVE LeavesOf(_, _)
LeavesOf(els, k) == IF k > Len(els) THEN <<>> ELSE Leaves(els[k]) \o LeavesOf(els, k + 1)
Leaves(msg) == IF is_array(msg) THEN LeavesOf(msg[2], 1) ELSE <<msg>>

(* ------------------------------ the machine --------------------------- *)
\* what the callbacks of this bot may do: empty_bot::process_command returns
\* nullptr and empty_bot::process_image sends nothing
CtrlResponses == IF empty_bot THEN {Null} ELSE Responses
ImgScripts == IF empty_bot THEN {<<>>} ELSE CbScripts

ZeroMetadata == [width |-> 0, height |-> 0, plane_strides |-> 0]

Init ==
    /\ bot_id \in BotIds
    /\ has_ctrl \in BOOLEAN
    /\ empty_bot \in {b \in BOOLEAN : b => has_ctrl}
    /\ image_metadata = ZeroMetadata
    /\ message_buffer = <<>>
    /\ current_frame_id = ZeroId
    /\ aborted = FALSE
    /\ phase = "created"
    /\ shutdown_calls = 0
    /\ shutdown_buf = <<>>
    /\ shutdown_out = <<>>
    /\ first_frame = <<>>
    /\ op = "none"
    /\ input = Null
    /\ input_left = <<>>
    /\ pre = [buf |-> <<>>, cur |-> ZeroId, meta |-> ZeroMetadata, phase |-> "created"]
    /\ out = <<>>
    /\ out_done = FALSE
    /\ img_log = <<>>
    /\ ctrl_log = <<>>
    /\ queue_log = <<>>
    /\ rec = NoRecorder
    /\ cp = NoPosition
    /\ rc = NoClient
    /\ es = NoText

\* The fields of the bot after an operation that left it as b, and the record
\* of the operation.
Commit(name, in, b, emitted) ==
    /\ message_buffer' = b.buf
    /\ current_frame_id' = b.cur
    /\ image_metadata' = b.meta
    /\ aborted' = b.dead
    /\ op' = name
    /\ input' = in
    /\ pre' = [buf |-> message_buffer, cur |-> current_frame_id,
               meta |-> image_metadata, phase |-> phase]
    /\ out' = IF b.dead THEN <<>> ELSE emitted
    /\ img_log' = b.imgs
    /\ ctrl_log' = b.ctrls
    /\ queue_log' = b.queued
    /\ UNCHANGED <<bot_id, has_ctrl, empty_bot, rec, cp, rc, es>>

\* bot_instance::configure(config), called once before the pipeline runs
Configure ==
    /\ phase = "created" /\ ~aborted
    /\ \E config \in Configs, resp \in CtrlResponses :
         LET b == configure(BotState, config, resp)
         IN /\ (b.ctrls = <<>> => resp = Null)
            /\ Commit("configure", config, b, <<>>)
            /\ phase' = IF b.dead THEN phase ELSE "running"
    /\ UNCHANGED <<shutdown_calls, shutdown_buf, shutdown_out, first_frame, input_left,
                   out_done>>

\* the main stream maps a batch through operator()(std::queue<owned_image_packet>&)
Batch ==
    /\ phase = "running" /\ ~aborted /\ op = "none"
    /\ \E pp \in Batches, scr \in ImgScripts :
         LET r == OnBatch(BotState, pp, scr)
         IN /\ (r.b.imgs = <<>> => scr = <<>>)
            /\ Commit("batch", pp, r.b, r.result)
            /\ input_left' = r.pp
            /\ first_frame' = IF first_frame = <<>> /\ SelectSeq(pp, IsFrame) # <<>>
                              THEN <<Geometry(Head(SelectSeq(pp, IsFrame)))>>
                              ELSE first_frame
    /\ UNCHANGED <<phase, shutdown_calls, shutdown_buf, shutdown_out, out_done>>

\* the main stream maps a control message through operator()(nlohmann::json&)
Control ==
    /\ phase = "running" /\ ~aborted /\ op = "none"
    /\ \E msg \in Controls :
       \E resps \in [1..Len(Leaves(msg)) -> CtrlResponses] :
         LET r == OnControl(BotState, msg, resps)
         IN /\ \A n \in 1..Len(resps) : n > Len(r.b.ctrls) => resps[n] = Null
            /\ Commit("control", msg, r.b, r.result)
    /\ UNCHANGED <<phase, shutdown_calls, shutdown_buf, shutdown_out, first_frame,
                   input_left, out_done>>

\* the source completes: concat subscribes to shutdown_stream
MainComplete ==
    /\ phase = "running" /\ ~aborted /\ op = "none"
    /\ phase' = "completed"
    /\ Commit("complete", Null, BotState, <<>>)
    /\ UNCHANGED <<shutdown_calls, shutdown_buf, shutdown_out, first_frame, input_left,
                   out_done>>

\* the source fails: concat forwards the error and never subscribes to
\* shutdown_stream
MainError ==
    /\ phase = "running" /\ ~aborted /\ op = "none"
    /\ phase' = "failed"
    /\ Commit("error", Null, BotState, <<>>)
    /\ UNCHANGED <<shutdown_calls, shutdown_buf, shutdown_out, first_frame, input_left,
                   out_done>>

\* downstream demand reaches shutdown_stream: the first time init runs, then
\* pump; later only pump
Pull ==
    /\ phase \in {"completed", "draining"} /\ ~aborted /\ op = "none"
    /\ \E resp \in CtrlResponses :
         LET first == phase = "completed"
             b == IF first THEN shutdown_init(BotState, resp) ELSE BotState
             r == shutdown_pump(b)
         IN /\ (r.b.ctrls = <<>> => resp = Null)
            /\ Commit("pull", Null, r.b, r.result)
            /\ out_done' = r.done
            /\ phase' = IF r.b.dead THEN phase
                        ELSE IF r.done THEN "done" ELSE "draining"
            /\ shutdown_calls' = shutdown_calls + Len(r.b.ctrls)
            /\ shutdown_buf' = IF first /\ ~b.dead THEN b.buf ELSE shutdown_buf
            /\ shutdown_out' = IF r.b.dead THEN shutdown_out ELSE shutdown_out \o r.result
    /\ UNCHANGED <<input_left, first_frame>>

\* The downstream subscriber takes what the last operation emitted; the
\* pipeline is pull-driven, so the next input is handled only after that.
Deliver ==
    /\ op # "none" /\ ~aborted
    /\ op' = "none"
    /\ input' = Null
    /\ input_left' = <<>>
    /\ pre' = [buf |-> message_buffer, cur |-> current_frame_id,
               meta |-> image_metadata, phase |-> phase]
    /\ out' = <<>>
    /\ out_done' = FALSE
    /\ img_log' = <<>>
    /\ ctrl_log' = <<>>
    /\ queue_log' = <<>>
    /\ UNCHANGED <<bot_id, has_ctrl, empty_bot, image_metadata, message_buffer,
                   current_frame_id, aborted, phase, shutdown_calls, shutdown_buf,
                   shutdown_out, first_frame, rec, cp, rc, es>>

Next == Configure \/ Batch \/ Control \/ MainComplete \/ MainError \/ Pull \/ Deliver

Spec == Init /\ [][Next]_vars

\* The pipeline with a downstream subscriber that keeps requesting: every
\* emission is taken, and the shutdown generator is pulled as long as it has
\* not completed.
FairSpec == Spec /\ WF_vars(Deliver) /\ WF_vars(Pull)

(***************************************************************************)
(* The standalone recorder (src/unnamed/part_003): video_stream, which     *)
(* stands between the encoded stream and the file sink, and run_standalone *)
(* with its signal handler and the stop request posted to the I/O loop.    *)
(* rec.log is what the recorder did to its neighbours, in order:           *)
(*   <<"sink.on_subscribe">>, <<"sink.on_next", pkt>>,                     *)
(*   <<"sink.on_complete">>, <<"subscription.cancel">>, <<"stop">> (a call *)
(*   of video_stream::stop), <<"done", ec>> (the done callback),           *)
(*   <<"io.post">>, <<"client.stop">>, <<"signal", name>>.                 *)
(***************************************************************************)
\* most packets the encoded stream delivers
MaxPackets == 2
\* most signals the process gets
MaxSignals == 1
Signals == {"SIGINT", "SIGTERM", "SIGQUIT"}
PacketNames == <<"p1", "p2", "p3", "p4">>
\* std::error_condition: the default one and a failure
NoError == "ok"
StreamErrors == {"stream_error"}

Logged(r, ev) == [r EXCEPT !.log = Append(@, ev)]

\* video_stream has no lock: the stream's callbacks run on the worker thread
\* of line 137, the signal handler and the destructor elsewhere.  A call is a
\* record [fn, pc, arg]: pc is the line the call has reached, and every
\* operator below takes the recorder and a call and gives the set of
\* outcomes [r, t] of the call's next step.
Idle == [fn |-> "none", pc |-> "idle", arg |-> NoError]
At(r, t, pc) == [r |-> r, t |-> [t EXCEPT !.pc = pc]]
Returned(r) == [r |-> r, t |-> Idle]
\* a failed CHECK, or a call through an empty boost::optional<T &>
Ended(r, t) == [r |-> [r EXCEPT !.dead = TRUE], t |-> t]

\* video_stream::stop, lines 117-131, a line at a time: the LOG of line 118,
\* the test of line 120, the call of 122, the reset of 123, the test of 126,
\* the call of 128, the reset of 129.  Lines 122 and 128
\* read the optional again and call through what they read: when another
\* call has reset it since the test, the read came before the reset (the
\* call is made, on the subscription or sink that was there) or after it (the
\* call goes through an empty boost::optional<T &> and the process ends).
stop(r, t) ==
    CASE t.pc = "stop" -> {At(Logged(r, <<"stop">>), t, "test_subscription")}
      [] t.pc = "test_subscription" ->
           {At(r, t, IF r.subscription THEN "cancel" ELSE "test_sink")}
      [] t.pc = "cancel" ->
           {At([Logged(r, <<"subscription.cancel">>)
                   EXCEPT !.upstream = IF @ = "active" THEN "cancelled" ELSE @],
               t, "reset_subscription")}
           \cup (IF r.subscription THEN {} ELSE {Ended(r, t)})
      [] t.pc = "reset_subscription" ->
           {At([r EXCEPT !.subscription = FALSE], t, "test_sink")}
      [] t.pc = "test_sink" ->
           {At(r, t, IF r.sink THEN "complete" ELSE "stopped")}
      [] t.pc = "complete" ->
           {At(Logged(r, <<"sink.on_complete">>), t, "reset_sink")}
           \cup (IF r.sink THEN {} ELSE {Ended(r, t)})
      [] t.pc = "reset_sink" -> {At([r EXCEPT !.sink = FALSE], t, "stopped")}

\* request_rtm_client_stop, lines 264-275: io.post
request_rtm_client_stop(r) == [Logged(r, <<"io.post">>) EXCEPT !.posted = @ + 1]

\* the handler that request_rtm_client_stop posts, lines 265-274
client_stop_handler(r) ==
    LET r1 == [r EXCEPT !.posted = @ - 1]
    IN IF r1.client THEN Logged(r1, <<"client.stop">>) ELSE r1

\* the done callback that run_standalone gives to the stream, lines 284-292:
\* the LOG of line 286 or 289, then the stop request of line 291
done_callback(r, t, ec) ==
    IF t.pc = "stopped" THEN {At(Logged(r, <<"done", ec>>), t, "request")}
    ELSE {Returned(request_rtm_client_stop(r))}

\* video_stream::on_subscribe, lines 188-194: the CHECKs of lines 190 and
\* 191, the store of 192, the call of 193.  Nothing stands between the CHECK
\* of _sink and the call through it, here and in on_next: when another call
\* resets _sink in between, the read of the call came before the reset (the
\* call is made) or after it (the process ends).
on_subscribe(r, t) ==
    CASE t.pc = "check_subscription" ->
           IF r.subscription THEN {Ended(r, t)} ELSE {At(r, t, "check_sink")}
      [] t.pc = "check_sink" ->
           IF ~r.sink THEN {Ended(r, t)} ELSE {At(r, t, "store")}
      [] t.pc = "store" -> {At([r EXCEPT !.subscription = TRUE], t, "forward")}
      [] t.pc = "forward" ->
           {Returned(Logged(r, <<"sink.on_subscribe">>))}
           \cup (IF r.sink THEN {} ELSE {Ended(r, t)})

\* video_stream::connect, lines 149-164: the publisher is subscribed to and
\* calls on_subscribe when it pleases
connect(r) ==
    IF ~r.channel \/ r.subscription \/ r.sink THEN [r EXCEPT !.dead = TRUE]
    ELSE [r EXCEPT !.sink = TRUE, !.upstream = "subscribing"]

\* video_stream::on_next, lines 166-170: the CHECKs of lines 167 and 168,
\* the call of 169
on_next(r, t) ==
    CASE t.pc = "check_subscription" ->
           IF ~r.subscription THEN {Ended(r, t)} ELSE {At(r, t, "check_sink")}
      [] t.pc = "check_sink" ->
           IF ~r.sink THEN {Ended(r, t)} ELSE {At(r, t, "forward")}
      [] t.pc = "forward" ->
           {Returned(Logged(r, <<"sink.on_next", t.arg>>))}
           \cup (IF r.sink THEN {} ELSE {Ended(r, t)})

\* video_stream::on_error, lines 172-178: the CHECKs of lines 174 and 175,
\* stop(), the done callback
on_error(r, t) ==
    CASE t.pc = "check_subscription" ->
           IF ~r.subscription THEN {Ended(r, t)} ELSE {At(r, t, "check_sink")}
      [] t.pc = "check_sink" ->
           IF ~r.sink THEN {Ended(r, t)} ELSE {At(r, t, "stop")}
      [] t.pc \in {"stopped", "request"} -> done_callback(r, t, t.arg)
      [] OTHER -> stop(r, t)

\* video_stream::on_complete, lines 180-186: the CHECKs of lines 182 and 183,
\* stop(), the done callback with the empty condition
on_complete(r, t) ==
    CASE t.pc = "check_subscription" ->
           IF ~r.subscription THEN {Ended(r, t)} ELSE {At(r, t, "check_sink")}
      [] t.pc = "check_sink" ->
           IF ~r.sink THEN {Ended(r, t)} ELSE {At(r, t, "stop")}
      [] t.pc \in {"stopped", "request"} -> done_callback(r, t, NoError)
      [] OTHER -> stop(r, t)

\* the signal handler of run_standalone, lines 295-299
signal_handler(r, t) ==
    CASE t.pc = "enter" -> {At(Logged(r, <<"signal", t.arg>>), t, "stop")}
      [] t.pc = "stopped" -> {Returned(request_rtm_client_stop(r))}
      [] OTHER -> stop(r, t)

\* ~video_stream, line 113, and the return of run_standalone
destructor(r, t) ==
    IF t.pc = "stopped" THEN {Returned([r EXCEPT !.pc = "destroyed"])}
    ELSE stop(r, t)

\* the subscriber call the worker thread is in
callback(r, t) ==
    CASE t.fn = "on_subscribe" -> on_subscribe(r, t)
      [] t.fn = "on_next" -> on_next(r, t)
      [] t.fn = "on_error" -> on_error(r, t)
      [] t.fn = "on_complete" -> on_complete(r, t)

\* run_standalone is entered: nothing is built yet; the client may be absent,
\* and so may the input channel of the configuration
RecorderStart ==
    rec \in {[pc |-> "start", channel |-> ch, subscription |-> FALSE,
              sink |-> FALSE, upstream |-> "idle", client |-> c, posted |-> 0,
              log |-> <<>>, dead |-> FALSE, delivered |-> 0, signals |-> 0,
              worker |-> Idle, handlers |-> <<>>, main |-> Idle]
             : c \in BOOLEAN, ch \in BOOLEAN}

RecInit ==
    /\ bot_id = "" /\ has_ctrl = FALSE /\ empty_bot = FALSE
    /\ image_metadata = ZeroMetadata /\ message_buffer = <<>>
    /\ current_frame_id = ZeroId /\ aborted = FALSE /\ phase = "created"
    /\ shutdown_calls = 0 /\ shutdown_buf = <<>> /\ shutdown_out = <<>>
    /\ first_frame = <<>> /\ op = "none" /\ input = Null /\ input_left = <<>>
    /\ pre = [buf |-> <<>>, cur |-> ZeroId, meta |-> ZeroMetadata, phase |-> "created"]
    /\ out = <<>> /\ out_done = FALSE /\ img_log = <<>> /\ ctrl_log = <<>>
    /\ queue_log = <<>>
    /\ RecorderStart
    /\ cp = NoPosition
    /\ rc = NoClient
    /\ es = NoText

Running == rec.pc = "running" /\ ~rec.dead

\* video_stream's constructor, lines 98-109, called at lines 279-292; then the
\* signal handler is registered and io.run() is entered
Construct ==
    /\ rec.pc = "start" /\ ~rec.dead
    /\ LET r == connect(rec)
       IN rec' = IF r.dead THEN r ELSE [r EXCEPT !.pc = "running"]
    /\ UNCHANGED <<botvars, cp, rc, es>>

\* the encoded stream gives its subscription: the worker thread enters
\* on_subscribe (the LOG of line 189)
UpstreamSubscribe ==
    /\ Running /\ rec.upstream = "subscribing" /\ rec.worker = Idle
    /\ rec' = [rec EXCEPT !.upstream = "active",
                       !.worker = [fn |-> "on_subscribe", pc |-> "check_subscription",
                                   arg |-> NoError]]
    /\ UNCHANGED <<botvars, cp, rc, es>>

\* the encoded stream delivers a packet
UpstreamNext ==
    /\ Running /\ rec.upstream = "active" /\ rec.worker = Idle
    /\ rec.delivered < MaxPackets
    /\ rec' = [rec EXCEPT !.delivered = @ + 1,
                       !.worker = [fn |-> "on_next", pc |-> "check_subscription",
                                   arg |-> PacketNames[rec.delivered + 1]]]
    /\ UNCHANGED <<botvars, cp, rc, es>>

\* the encoded stream completes
UpstreamComplete ==
    /\ Running /\ rec.upstream = "active" /\ rec.worker = Idle
    /\ rec' = [rec EXCEPT !.upstream = "completed",
                       !.worker = [fn |-> "on_complete", pc |-> "check_subscription",
                                   arg |-> NoError]]
    /\ UNCHANGED <<botvars, cp, rc, es>>

\* the encoded stream fails
UpstreamError ==
    /\ Running /\ rec.upstream = "active" /\ rec.worker = Idle
    /\ \E ec \in StreamErrors :
          rec' = [rec EXCEPT !.upstream = "failed",
                       !.worker = [fn |-> "on_error", pc |-> "check_subscription",
                                   arg |-> ec]]
    /\ UNCHANGED <<botvars, cp, rc, es>>

\* the worker thread executes the next line of the call it is in
WorkerStep ==
    /\ Running /\ rec.worker # Idle
    /\ \E o \in callback(rec, rec.worker) : rec' = [o.r EXCEPT !.worker = o.t]
    /\ UNCHANGED <<botvars, cp, rc, es>>

\* SIGINT, SIGTERM or SIGQUIT arrives.  The handler is registered at line 294
\* and never removed: it also runs after io.run() has returned, after
\* run_standalone has returned, when recorded_stream, which it holds by
\* reference, is gone and its storage holds anything, and after recorder_main
\* has returned.
Signal ==
    /\ rec.pc \in {"running", "exited", "destroyed", "returned"} /\ ~rec.dead
    /\ rec.signals < MaxSignals
    /\ \E sig \in Signals, sub \in BOOLEAN, snk \in BOOLEAN :
          /\ rec.pc \in {"running", "exited"} => sub = rec.subscription /\ snk = rec.sink
          /\ \E o \in signal_handler([rec EXCEPT !.signals = @ + 1,
                                                 !.subscription = sub,
                                                 !.sink = snk],
                                     [fn |-> "signal_handler", pc |-> "enter", arg |-> sig]) :
                rec' = [o.r EXCEPT !.handlers = Append(@, o.t)]
    /\ UNCHANGED <<botvars, cp, rc, es>>

\* the handler holds recorded_stream, io and client by reference (line 295).
\* Once run_standalone has returned, recorded_stream is gone: a line of stop()
\* reads what its storage holds, or what it read before, or ends the process.
\* Once recorder_main has returned, io and client (lines 332-340) are gone as
\* well: the post of the stop request seems to work or ends the process.
dangling(r, t) ==
    IF t.pc # "stopped" THEN stop(r, t) \cup {Ended(r, t)}
    ELSE signal_handler(r, t) \cup (IF r.pc = "returned" THEN {Ended(r, t)} ELSE {})

\* a signal handler executes its next line
HandlerStep ==
    /\ ~rec.dead
    /\ \E k \in DOMAIN rec.handlers :
          \E o \in IF rec.pc \in {"destroyed", "returned"}
                   THEN dangling(rec, rec.handlers[k])
                   ELSE signal_handler(rec, rec.handlers[k]) :
             rec' = [o.r EXCEPT !.handlers =
                        IF o.t = Idle
                        THEN SubSeq(@, 1, k - 1) \o SubSeq(@, k + 1, Len(@))
                        ELSE [@ EXCEPT ![k] = o.t]]
    /\ UNCHANGED <<botvars, cp, rc, es>>

\* io.run() executes a posted handler
IoRun ==
    /\ Running /\ rec.posted > 0
    /\ rec' = client_stop_handler(rec)
    /\ UNCHANGED <<botvars, cp, rc, es>>

\* io.run() returns: no handler is posted and no stream is at work
IoExit ==
    /\ Running /\ rec.posted = 0 /\ rec.worker = Idle
    /\ rec.upstream \notin {"idle", "subscribing", "active"}
    /\ rec' = [rec EXCEPT !.pc = "exited"]
    /\ UNCHANGED <<botvars, cp, rc, es>>

\* run_standalone returns: ~video_stream, line 113, is entered
Destroy ==
    /\ rec.pc = "exited" /\ ~rec.dead /\ rec.main = Idle
    /\ rec' = [rec EXCEPT !.main = [fn |-> "destructor", pc |-> "stop", arg |-> NoError]]
    /\ UNCHANGED <<botvars, cp, rc, es>>

\* the destructor executes its next line
DestroyStep ==
    /\ ~rec.dead /\ rec.main # Idle
    /\ \E o \in destructor(rec, rec.main) : rec' = [o.r EXCEPT !.main = o.t]
    /\ UNCHANGED <<botvars, cp, rc, es>>

\* recorder_main returns, line 352: io and client are destroyed, and the
\* stack that held recorded_stream has been used again, so that its two
\* optionals read as anything
MainReturn ==
    /\ rec.pc = "destroyed" /\ ~rec.dead
    /\ \E sub \in BOOLEAN, snk \in BOOLEAN :
          rec' = [rec EXCEPT !.pc = "returned", !.subscription = sub, !.sink = snk]
    /\ UNCHANGED <<botvars, cp, rc, es>>

RecNext ==
    \/ Construct \/ UpstreamSubscribe \/ UpstreamNext \/ UpstreamComplete
    \/ UpstreamError \/ WorkerStep \/ Signal \/ HandlerStep \/ IoRun \/ IoExit
    \/ Destroy \/ DestroyStep \/ MainReturn

RecSpec == RecInit /\ [][RecNext]_vars

\* io.run() keeps executing the handlers posted to it, and every thread that
\* is inside a call goes on with it
RecFairSpec ==
    RecSpec /\ WF_vars(IoRun) /\ WF_vars(WorkerStep) /\ WF_vars(HandlerStep)
            /\ WF_vars(DestroyStep)

(***************************************************************************)
(* channel_position (src/src/rtm_client.h): str() and parse().             *)
(* A string is a sequence of one-character strings. A 64-bit integer is    *)
(* four 16-bit limbs, least significant first (a 32-bit one two limbs), so *)
(* that the full widths are kept; a long long is in two's complement.      *)
(***************************************************************************)
\* longest string given to parse as it is (strings made by str() are longer)
MaxTextLen == 4
\* 2^16
LimbBase == 65536
SignBit == LimbBase \div 2
Zero64 == <<0, 0, 0, 0>>
\* std::numeric_limits of unsigned long long and long long
ULLONG_MAX == <<LimbBase - 1, LimbBase - 1, LimbBase - 1, LimbBase - 1>>
LLONG_MAX == <<LimbBase - 1, LimbBase - 1, LimbBase - 1, SignBit - 1>>
LLONG_MIN == <<0, 0, 0, SignBit>>

DigitChars == <<"0", "1", "2", "3", "4", "5", "6", "7", "8", "9">>
Digits == {DigitChars[k] : k \in 1..10}
DigitVal(c) == CHOOSE d \in 0..9 : DigitChars[d + 1] = c
\* isspace() in the C locale; "VT" is the one character 0x0b (vertical tab),
\* for which a TLA+ string has no escape
Spaces == {" ", "\t", "\n", "\r", "\f", "VT"}
\* str[i] of a C string: the terminator follows the last character
CharAt(text, i) == IF i > Len(text) THEN "NUL" ELSE text[i]

\* w * 10 + d on limbs k.. of w, carry coming in; carry going out
RECURSIVE mul10_add(_, _, _)
mul10_add(w, k, carry) ==
    IF k > Len(w) THEN [val |-> <<>>, carry |-> carry]
    ELSE LET t == w[k] * 10 + carry
             rest == mul10_add(w, k + 1, t \div LimbBase)
         IN [val |-> <<t % LimbBase>> \o rest.val, carry |-> rest.carry]
\* w divided by 10, limbs k down to 1, rem coming in from the limbs above
RECURSIVE div10(_, _, _)
div10(w, k, rem) ==
    IF k = 0 THEN [quot |-> <<>>, rem |-> rem]
    ELSE LET t == rem * LimbBase + w[k]
             lower == div10(w, k - 1, t % 10)
         IN [quot |-> Append(lower.quot, t \div 10), rem |-> lower.rem]
IsZero(w) == \A k \in 1..Len(w) : w[k] = 0
\* 2^64 - w
RECURSIVE negate_from(_, _, _)
negate_from(w, k, carry) ==
    IF k > Len(w) THEN <<>>
    ELSE LET t == (LimbBase - 1 - w[k]) + carry
         IN <<t % LimbBase>> \o negate_from(w, k + 1, t \div LimbBase)
Negate(w) == negate_from(w, 1, 1)

\* std::to_string of an unsigned value
RECURSIVE digits_of(_)
digits_of(w) ==
    IF IsZero(w) THEN <<>>
    ELSE LET dm == div10(w, Len(w), 0)
         IN Append(digits_of(dm.quot), DigitChars[dm.rem + 1])
to_string(w) == IF IsZero(w) THEN <<"0">> ELSE digits_of(w)

\* channel_position::str, line 47
str(p) == to_string(p.gen) \o <<":">> \o to_string(p.pos)

\* the subject sequence of strtoll and strtoull, base 10: white space, an
\* optional sign, digits; end is the index of the first character not used,
\* start when there is no digit
RECURSIVE skip_space(_, _)
skip_space(text, i) ==
    IF i <= Len(text) /\ text[i] \in Spaces THEN skip_space(text, i + 1) ELSE i
RECURSIVE take_digits(_, _, _)
take_digits(text, i, acc) ==
    IF i > Len(text) \/ text[i] \notin Digits THEN [acc EXCEPT !.end = i]
    ELSE LET ma == mul10_add(acc.val, 1, DigitVal(text[i]))
         IN take_digits(text, i + 1, [val |-> ma.val, end |-> i,
                                      over |-> acc.over \/ ma.carry # 0])
scan_number(text, start) ==
    LET i == skip_space(text, start)
        signed == CharAt(text, i) \in {"+", "-"}
        j == IF signed THEN i + 1 ELSE i
        d == take_digits(text, j, [val |-> Zero64, end |-> j, over |-> FALSE])
    IN IF d.end = j
       THEN [neg |-> FALSE, val |-> Zero64, over |-> FALSE, end |-> start]
       ELSE [neg |-> CharAt(text, i) = "-", val |-> d.val, over |-> d.over,
             end |-> d.end]

\* strtoll(str, &end, 10), line 51: the value as a long long, clamped
strtoll(text, start) ==
    LET n == scan_number(text, start)
    IN [end |-> n.end,
        val |-> IF ~n.neg
                THEN IF n.over \/ n.val[4] >= SignBit THEN LLONG_MAX ELSE n.val
                ELSE IF n.over \/ n.val[4] > SignBit
                        \/ (n.val[4] = SignBit /\ ~IsZero(SubSeq(n.val, 1, 3)))
                     THEN LLONG_MIN
                     ELSE Negate(n.val)]
\* a variant that reads pos as a long long
strtoull_signed(text, start) == strtoll(text, start)
\* strtoull(str, &end, 10), line 57: clamped, a negative value negated as
\* unsigned
strtoull(text, start) ==
    LET n == scan_number(text, start)
    IN [end |-> n.end,
        val |-> IF n.over THEN ULLONG_MAX
                ELSE IF n.neg THEN Negate(n.val) ELSE n.val]

\* CHECK_LE(gen, std::numeric_limits<uint32_t>::max()), line 52, for a long
\* long gen: a signed comparison
check_le_uint32_max(gen) == gen[4] >= SignBit \/ (gen[3] = 0 /\ gen[4] = 0)
\* static_cast<uint32_t>(gen), line 62
to_uint32(gen) == SubSeq(gen, 1, 2)

Position(gen, pos) == [aborted |-> FALSE, gen |-> gen, pos |-> pos]
\* return {0, 0}
ZeroPosition == Position(<<0, 0>>, Zero64)
\* a failed CHECK ends the process
Aborted == [aborted |-> TRUE, gen |-> <<0, 0>>, pos |-> Zero64]

\* channel_position::parse, lines 49-63
parse(text) ==
    LET g == strtoll(text, 1)
    IN IF ~check_le_uint32_max(g.val) THEN Aborted
       ELSE IF g.end = 1 \/ CharAt(text, g.end) # ":" THEN ZeroPosition
       ELSE LET p == strtoull(text, g.end + 1)
            IN IF CharAt(text, p.end) # "NUL" THEN ZeroPosition
               ELSE Position(to_uint32(g.val), p.val)

\* the limbs the positions are made of
LimbValues == {0, 1, 10, LimbBase - 1}
Positions == [gen : [1..2 -> LimbValues], pos : [1..4 -> LimbValues]]
\* strings that come from elsewhere
Alphabet == {"0", "1", "5", ":", "-", "+", " ", "x"}
LongTexts ==
    {<<"4", "2", "9", "4", "9", "6", "7", "2", "9", "6", ":", "5">>,
     <<"-", "4", "2", "9", "4", "9", "6", "7", "2", "9", "7", ":", "5">>,
     <<"9", "2", "2", "3", "3", "7", "2", "0", "3", "6", "8", "5", "4", "7", "7", "5",
       "8", "0", "8", ":", "1">>,
     <<"1", ":", "1", "8", "4", "4", "6", "7", "4", "4", "0", "7", "3", "7", "0", "9",
       "5", "5", "1", "6", "1", "6">>,
     <<"1", ":", "\t", "0", "0", "5">>,
     <<"VT", "1", ":", "5">>,
     <<"1", ":", "VT", "5">>,
     <<"1", ":", "5", " ", "x">>}
Texts == SeqsUpTo(Alphabet, MaxTextLen) \cup LongTexts

PosInit ==
    /\ bot_id = "" /\ has_ctrl = FALSE /\ empty_bot = FALSE
    /\ image_metadata = ZeroMetadata /\ message_buffer = <<>>
    /\ current_frame_id = ZeroId /\ aborted = FALSE /\ phase = "created"
    /\ shutdown_calls = 0 /\ shutdown_buf = <<>> /\ shutdown_out = <<>>
    /\ first_frame = <<>> /\ op = "none" /\ input = Null /\ input_left = <<>>
    /\ pre = [buf |-> <<>>, cur |-> ZeroId, meta |-> ZeroMetadata, phase |-> "created"]
    /\ out = <<>> /\ out_done = FALSE /\ img_log = <<>> /\ ctrl_log = <<>>
    /\ queue_log = <<>>
    /\ rec = NoRecorder
    /\ cp = [pc |-> "idle", from |-> <<>>, text |-> <<>>, result |-> ZeroPosition]
    /\ rc = NoClient
    /\ es = NoText

\* a position is written with str()
PositionStr ==
    /\ cp.pc = "idle"
    /\ \E p \in Positions : cp' = [cp EXCEPT !.pc = "text", !.from = <<p>>, !.text = str(p)]
    /\ UNCHANGED <<botvars, rec, rc, es>>

\* a string arrives from elsewhere
PositionText ==
    /\ cp.pc = "idle"
    /\ \E t \in Texts : cp' = [cp EXCEPT !.pc = "text", !.text = t]
    /\ UNCHANGED <<botvars, rec, rc, es>>

\* the string is given to channel_position::parse
PositionParse ==
    /\ cp.pc = "text"
    /\ cp' = [cp EXCEPT !.pc = "parsed", !.result = parse(cp.text)]
    /\ UNCHANGED <<botvars, rec, rc, es>>

PosNext == PositionStr \/ PositionText \/ PositionParse

PosSpec == PosInit /\ [][PosNext]_vars

(***************************************************************************)
(* The resilient client (declared in src/unnamed/part_002:111-155 and      *)
(* src/src/rtm_client.h:127-174): a bus client that wraps a delegate built *)
(* by a factory, records the subscriptions made through it and restarts    *)
(* the delegate on any error  (ResSpec)                                    *)
(***************************************************************************)
\* most subscribe calls made through one resilient client
MaxSubscriptions == 3
\* most errors the delegates of one resilient client report
MaxRestarts == 2

Channels == {"frames", "metadata"}
\* what a delegate's start() returns
StartResults == {NoError, "not_connected"}

\* struct subscription_info: the channel and the caller's subscription object
subscription_info(channel, sub) == [channel |-> channel, sub |-> sub]

\* a call the wrapper makes: to the factory, to delegate number n, or to the
\* outer error_callbacks
Called(c, ev) == [c EXCEPT !.calls = Append(@, ev)]

\* _client = _factory(*this)
factory(c) == Called([c EXCEPT !.client = c.built + 1, !.built = @ + 1],
                     <<"factory", c.built + 1>>)

\* resilient_client::start(): the first delegate is built and started
resilient_start(c) ==
    LET f == factory(c)
    IN  Called([f EXCEPT !.started = TRUE], <<"start", f.client>>)

\* resilient_client::stop()
resilient_stop(c) == Called([c EXCEPT !.started = FALSE], <<"stop", c.client>>)

\* resilient_client::subscribe: recorded in the table, passed to the delegate
resilient_subscribe(c, info) ==
    Called([c EXCEPT !.subscriptions = Append(@, info)], <<"subscribe", c.client, info>>)

\* resilient_client::unsubscribe: passed to the delegate, dropped from the table
resilient_unsubscribe(c, sub) ==
    Called([c EXCEPT !.subscriptions = SelectSeq(@, LAMBDA si : si.sub # sub)],
           <<"unsubscribe", c.client, sub>>)

\* the recorded subscriptions, last one first
replay_backwards(c) ==
    [k \in 1..Len(c.subscriptions) |->
        <<"subscribe", c.client, c.subscriptions[Len(c.subscriptions) + 1 - k]>>]
\* the recorded subscriptions issued to the current delegate, in table order
replay(c) ==
    [k \in 1..Len(c.subscriptions) |-> <<"subscribe", c.client, c.subscriptions[k]>>]

\* resilient_client::restart(): stop the delegate, build a fresh one, start
\* it, replay the table; a failing start goes to the outer error_callbacks
restart(c, started) ==
    LET stopped == Called(c, <<"stop", c.client>>)
        fresh == factory(stopped)
        up == Called(fresh, <<"start", fresh.client>>)
    IN  IF started # NoError
        THEN Called([up EXCEPT !.pc = "failed"], <<"error_callbacks.on_error", started>>)
        ELSE [up EXCEPT !.calls = @ \o replay(up)]

\* resilient_client::on_error(ec), called by the delegate
resilient_on_error(c, ec, started) == restart([c EXCEPT !.restarts = @ + 1], started)

\* a call of the wrapper begins: the record of the last call is replaced
Operation(c, name) == [c EXCEPT !.op = name, !.calls = <<>>, !.before = c.subscriptions]

ResInit ==
    /\ bot_id = "" /\ has_ctrl = FALSE /\ empty_bot = FALSE
    /\ image_metadata = ZeroMetadata /\ message_buffer = <<>>
    /\ current_frame_id = ZeroId /\ aborted = FALSE /\ phase = "created"
    /\ shutdown_calls = 0 /\ shutdown_buf = <<>> /\ shutdown_out = <<>>
    /\ first_frame = <<>> /\ op = "none" /\ input = Null /\ input_left = <<>>
    /\ pre = [buf |-> <<>>, cur |-> ZeroId, meta |-> ZeroMetadata, phase |-> "created"]
    /\ out = <<>> /\ out_done = FALSE /\ img_log = <<>> /\ ctrl_log = <<>>
    /\ queue_log = <<>>
    /\ rec = NoRecorder
    /\ cp = NoPosition
    /\ rc = [pc |-> "created", started |-> FALSE, client |-> 0, built |-> 0,
             subscriptions |-> <<>>, restarts |-> 0, op |-> "none", calls |-> <<>>,
             before |-> <<>>, made |-> <<>>, unsubscribed |-> {}]
    /\ es = NoText

\* the owner starts the client
ClientStart ==
    /\ rc.pc = "created"
    /\ rc' = [resilient_start(Operation(rc, "start")) EXCEPT !.pc = "started"]
    /\ UNCHANGED <<botvars, rec, cp, es>>

\* a user subscribes with a subscription object of its own
ClientSubscribe ==
    /\ rc.pc = "started" /\ Len(rc.made) < MaxSubscriptions
    /\ \E ch \in Channels :
         LET info == subscription_info(ch, Len(rc.made) + 1)
         IN  rc' = [resilient_subscribe(Operation(rc, "subscribe"), info)
                       EXCEPT !.made = Append(@, info)]
    /\ UNCHANGED <<botvars, rec, cp, es>>

\* a user gives up one of its subscriptions
ClientUnsubscribe ==
    /\ rc.pc = "started"
    /\ \E k \in 1..Len(rc.made) :
         /\ rc.made[k].sub \notin rc.unsubscribed
         /\ rc' = [resilient_unsubscribe(Operation(rc, "unsubscribe"), rc.made[k].sub)
                      EXCEPT !.unsubscribed = @ \cup {rc.made[k].sub}]
    /\ UNCHANGED <<botvars, rec, cp, es>>

\* the delegate reports an error
DelegateError ==
    /\ rc.pc = "started" /\ rc.restarts < MaxRestarts
    /\ \E ec \in StreamErrors, started \in StartResults :
         rc' = resilient_on_error(Operation(rc, "on_error"), ec, started)
    /\ UNCHANGED <<botvars, rec, cp, es>>

\* the owner stops the client
ClientStop ==
    /\ rc.pc = "started"
    /\ rc' = [resilient_stop(Operation(rc, "stop")) EXCEPT !.pc = "stopped"]
    /\ UNCHANGED <<botvars, rec, cp, es>>

ResNext == ClientStart \/ ClientSubscribe \/ ClientUnsubscribe \/ DelegateError
           \/ ClientStop

ResSpec == ResInit /\ [][ResNext]_vars

(***************************************************************************)
(* escape_slashes (src/unnamed/part_003:57-69), which makes a file name of *)
(* a channel name  (EscFairSpec)                                           *)
(***************************************************************************)
\* longest channel name given to escape_slashes, apart from LongNames
MaxNameLen == 4

\* std::string::npos
npos == -1
\* const std::string f{"/"}
f == <<"/">>
\* const std::string r{"{slash}"}
r == <<"{", "s", "l", "a", "s", "h", "}">>

\* s.find(what, from): the first index at or after from, counted from 0,
\* where what occurs in s, or npos
find(s, what, from) ==
    LET hits == {k \in from..(Len(s) - Len(what)) :
                    SubSeq(s, k + 1, k + Len(what)) = what}
    IN  IF hits = {} THEN npos ELSE CHOOSE k \in hits : \A h \in hits : k <= h

\* s.replace(at, n, with): n characters from index at give way to with
replace(s, at, n, with) == SubSeq(s, 1, at) \o with \o SubSeq(s, at + n + 1, Len(s))

\* one turn of the loop that also skips the character after the replacement
loop_body_skips_one(st) ==
    [result |-> replace(st.result, st.i, Len(f), r), i |-> st.i + Len(r) + 1]
\* one turn of the loop, lines 64-65, entered with i at a slash
loop_body(st) ==
    [result |-> replace(st.result, st.i, Len(f), r), i |-> st.i + Len(r)]

RECURSIVE escape_loop(_)
escape_loop(st) ==
    LET at == find(st.result, f, st.i)
    IN  IF at = npos THEN st.result ELSE escape_loop(loop_body([st EXCEPT !.i = at]))

\* escape_slashes(s)
escape_slashes(s) == escape_loop([result |-> s, i |-> 0])

\* channel names: all short ones over four characters, and three longer ones
LongNames ==
    {<<"{", "s", "l", "a", "s", "h", "}", "/">>,
     <<"/", "/", "/", "/", "/", "/">>,
     <<"a", "/", "v", "i", "d", "e", "o", "/">>}
Names == SeqsUpTo({"/", "a", "{", "}"}, MaxNameLen) \cup LongNames

EscInit ==
    /\ bot_id = "" /\ has_ctrl = FALSE /\ empty_bot = FALSE
    /\ image_metadata = ZeroMetadata /\ message_buffer = <<>>
    /\ current_frame_id = ZeroId /\ aborted = FALSE /\ phase = "created"
    /\ shutdown_calls = 0 /\ shutdown_buf = <<>> /\ shutdown_out = <<>>
    /\ first_frame = <<>> /\ op = "none" /\ input = Null /\ input_left = <<>>
    /\ pre = [buf |-> <<>>, cur |-> ZeroId, meta |-> ZeroMetadata, phase |-> "created"]
    /\ out = <<>> /\ out_done = FALSE /\ img_log = <<>> /\ ctrl_log = <<>>
    /\ queue_log = <<>>
    /\ rec = NoRecorder
    /\ cp = NoPosition
    /\ rc = NoClient
    /\ es = [pc |-> "idle", s |-> <<>>, result |-> <<>>, i |-> 0, turns |-> 0]

\* escape_slashes is called: lines 61-62
EscapeCall ==
    /\ es.pc = "idle"
    /\ \E s \in Names : es' = [pc |-> "loop", s |-> s, result |-> s, i |-> 0, turns |-> 0]
    /\ UNCHANGED <<botvars, rec, cp, rc>>

\* the loop condition finds a slash and the body runs: lines 63-66
EscapeTurn ==
    /\ es.pc = "loop"
    /\ LET at == find(es.result, f, es.i)
       IN  /\ at # npos
           /\ LET st == loop_body([result |-> es.result, i |-> at])
              IN  es' = [es EXCEPT !.result = st.result, !.i = st.i, !.turns = @ + 1]
    /\ UNCHANGED <<botvars, rec, cp, rc>>

\* the loop condition finds no slash and the result is returned: lines 63, 68
EscapeReturn ==
    /\ es.pc = "loop"
    /\ find(es.result, f, es.i) = npos
    /\ es' = [es EXCEPT !.pc = "done"]
    /\ UNCHANGED <<botvars, rec, cp, rc>>

EscNext == EscapeCall \/ EscapeTurn \/ EscapeReturn

\* a call that has begun keeps running: the loop is sequential code
EscFairSpec ==
    EscInit /\ [][EscNext]_vars /\ WF_vars(EscapeTurn) /\ WF_vars(EscapeReturn)

(* ------------------------- reading the record ------------------------- *)
\* the bot messages among what the last operation emitted
OutMessages == SelectSeq(out, IsMessage)
\* the image frames of the last input batch
InputFrames == IF op = "batch" THEN SelectSeq(input, IsFrame) ELSE <<>>
\* the queue_message calls the image callback made in the last operation
QueuedByCallback == IF img_log # <<>> THEN img_log[1].script ELSE <<>>
\* the non-null answers the control callback gave in the last operation
IsAnswer(c) == c.present /\ ~is_null(c.response)
Answers == SelectSeq(ctrl_log, IsAnswer)
\* the value of field k of object j, or a marker when j has no field k
FieldOf(j, k) == IF Has(j, k) THEN Get(j, k) ELSE <<"absent">>
\* object j without the two fields that stamping writes
Unstamped(j) == Obj([k \in (DOMAIN j[2]) \ {"i", "from"} |-> j[2][k]])
IdArray(id) == Arr(<<Num(id.i1), Num(id.i2)>>)
\* the data of the messages that the last operation had to send, as they were
\* before stamping: those already buffered, then those queued in it
SourceData ==
    [k \in 1..Len(pre.buf) |-> pre.buf[k].data]
    \o [k \in 1..Len(QueuedByCallback) |-> QueuedByCallback[k].data]
    \o [k \in 1..Len(Answers) |-> Answers[k].response]

(* -------------------------------- C1 ---------------------------------- *)
\* C1: every bot message emitted downstream is stamped: with a non-empty
\* bot_id its data.from is bot_id, whatever the user put there; with an
\* effective frame id whose i1 >= 0 its data.i is [i1, i2]; with an empty
\* bot_id the from field is as the sender left it, and with i1 < 0 the i field
\* is as the sender left it.
C1_EmittedMessagesAreStamped ==
    /\ Len(OutMessages) <= Len(SourceData)
    /\ \A k \in 1..Len(OutMessages) :
         LET m == OutMessages[k]
             src == SourceData[k]
         IN /\ bot_id # "" => FieldOf(m.data, "from") = Str(bot_id)
            /\ bot_id = "" => FieldOf(m.data, "from") = FieldOf(src, "from")
            /\ m.id.i1 >= 0 => FieldOf(m.data, "i") = IdArray(m.id)
            /\ m.id.i1 < 0 => FieldOf(m.data, "i") = FieldOf(src, "i")

\* a batch emitted a message whose user-supplied from was overwritten and
\* whose frame id (0,0) was written as i
C1_Witness ==
    /\ op = "batch" /\ bot_id = "b1"
    /\ \E k \in 1..Len(OutMessages) :
         /\ FieldOf(SourceData[k], "from") = Str("u")
         /\ OutMessages[k].data[2]["from"] = Str("b1")
         /\ OutMessages[k].id = ZeroId
         /\ FieldOf(OutMessages[k].data, "i") = IdArray(ZeroId)

(* -------------------------------- C2 ---------------------------------- *)
\* C2: while the image callback runs, current_frame_id is the id of the
\* batch's last frame, and a message the callback queues with id (0,0) is
\* emitted with that frame's id, written into data.i.
C2_ZeroIdGetsLastFrameId ==
    (op = "batch" /\ ~aborted /\ img_log # <<>>) =>
        LET last == InputFrames[Len(InputFrames)].id
        IN /\ current_frame_id = last
           /\ \A k \in 1..Len(QueuedByCallback) :
                QueuedByCallback[k].id = ZeroId =>
                    LET m == out[Len(input) + Len(pre.buf) + k]
                    IN m.id = last /\ FieldOf(m.data, "i") = IdArray(last)

(* -------------------------------- C3 ---------------------------------- *)
\* the effective id as claimed; current_frame_id does not change after the
\* image callback has been entered
C3_Effective(id) == IF id = ZeroId /\ current_frame_id # ZeroId THEN current_frame_id ELSE id
\* C3: queue_message stores the current frame id as the effective id whenever
\* the caller passes (0,0) and the current frame id differs from (0,0), and
\* the passed id in every other case.
C3_EffectiveFrameId ==
    /\ (op = "batch" /\ ~aborted) =>
         \A k \in 1..Len(QueuedByCallback) :
            out[Len(input) + Len(pre.buf) + k].id = C3_Effective(QueuedByCallback[k].id)
    /\ (op = "control" /\ ~aborted /\ ~is_array(input) /\ Answers # <<>>) =>
         out[Len(out)].id = C3_Effective(ZeroId)

(* -------------------------------- C4 ---------------------------------- *)
C4_Dropped(msg) ==
    \/ ~is_object(msg)
    \/ ~Has(msg, "to")
    \/ (bot_id # "" /\ Get(msg, "to") # Str(bot_id))
\* C4: a control input that is dropped (not an object, without "to", or for
\* another bot while bot_id is non-empty) emits nothing, does not call the
\* control callback and leaves the message buffer as it was.
C4_DroppedControlDoesNothing ==
    (op = "control" /\ ~is_array(input) /\ C4_Dropped(input)) =>
        /\ out = <<>>
        /\ ctrl_log = <<>>
        /\ message_buffer = pre.buf
        /\ ~aborted

\* a message for b2 reached bot b1 while a message was waiting in the buffer
C4_Witness ==
    /\ op = "control" /\ bot_id = "b1"
    /\ is_object(input) /\ Has(input, "to") /\ Get(input, "to") = Str("b2")
    /\ pre.buf # <<>> /\ message_buffer = pre.buf /\ out = <<>>

(* -------------------------------- C5 ---------------------------------- *)
\* C5 as claimed: an object with "to" is dropped only when bot_id is non-empty
\* and to differs from it; otherwise the control callback is called.
C5_Original ==
    (op = "control" /\ has_ctrl /\ is_object(input) /\ Has(input, "to")
        /\ ~(bot_id # "" /\ Get(input, "to") # Str(bot_id)))
    => ctrl_log # <<>>

\* C5 as amended: an object with "to" reaches the control callback exactly
\* when bot_id is non-empty and to equals it, and then the callback is called
\* once with the message itself; with an empty bot_id, or another to, the
\* message is dropped: no call and no output.
C5_RoutedOnlyToNamedBot ==
    (op = "control" /\ is_object(input) /\ Has(input, "to")) =>
        IF bot_id # "" /\ Get(input, "to") = Str(bot_id)
        THEN Len(ctrl_log) = 1 /\ ctrl_log[1].cmd = input
        ELSE ctrl_log = <<>> /\ out = <<>>

\* a bot without an id dropped a message whose to is the empty string too
C5_Witness ==
    /\ op = "control" /\ bot_id = ""
    /\ is_object(input) /\ Has(input, "to") /\ Get(input, "to") = Str("")
    /\ ctrl_log = <<>> /\ out = <<>>

(* -------------------------------- C6 ---------------------------------- *)
C6_Case ==
    /\ op = "control" /\ ~aborted /\ is_object(input) /\ Has(input, "to")
    /\ bot_id # "" /\ Get(input, "to") = Str(bot_id)
    /\ Answers # <<>>
C6_Response == Answers[1].response
C6_WithRequestId ==
    IF Has(input, "request_id")
    THEN Put(C6_Response, "request_id", Get(input, "request_id"))
    ELSE C6_Response
IsControlMessage(o) == IsMessage(o) /\ o.kind = CONTROL

\* C6 as claimed: the one CONTROL message emitted for the response carries the
\* response, request_id (when the request had one) and from, and nothing else.
C6_Original ==
    C6_Case =>
        /\ Len(SelectSeq(out, IsControlMessage)) = 1
        /\ out[Len(out)].data = Put(C6_WithRequestId, "from", Str(bot_id))

\* C6 as amended: the one CONTROL message emitted for the response carries the
\* response, request_id (when the request had one; otherwise the response's
\* own fields stay), from = bot_id, and also i = [i1, i2] of its frame id,
\* which is current_frame_id when both its components are non-zero and (0,0)
\* otherwise.
C6_ControlResponse ==
    C6_Case =>
        LET m == out[Len(out)]
        IN /\ Len(SelectSeq(out, IsControlMessage)) = 1
           /\ Len(out) = Len(pre.buf) + 1
           /\ m.kind = CONTROL
           /\ m.id = (IF current_frame_id.i1 # 0 /\ current_frame_id.i2 # 0
                      THEN current_frame_id ELSE ZeroId)
           /\ m.data = Put(Put(C6_WithRequestId, "i", IdArray(m.id)), "from", Str(bot_id))

\* the ping of scenario 4 was answered with {pong: true}
C6_Witness ==
    /\ C6_Case
    /\ FieldOf(input, "request_id") = Str("r")
    /\ C6_Response = Obj([pong |-> Bool(TRUE)])
    /\ out[Len(out)].data =
         Obj([pong |-> Bool(TRUE), request_id |-> Str("r"),
              i |-> IdArray(ZeroId), from |-> Str("b1")])

(* -------------------------------- C7 ---------------------------------- *)
\* the messages a batch has to send, in queue order: kind and data without
\* the stamped fields
C7_Expected ==
    [k \in 1..Len(pre.buf) |-> [kind |-> pre.buf[k].kind,
                                data |-> Unstamped(pre.buf[k].data)]]
    \o [k \in 1..Len(QueuedByCallback) |-> [kind |-> QueuedByCallback[k].kind,
                                            data |-> Unstamped(QueuedByCallback[k].data)]]
C7_Emitted ==
    [k \in 1..Len(OutMessages) |-> [kind |-> OutMessages[k].kind,
                                    data |-> Unstamped(OutMessages[k].data)]]
C7_PacketsThenMessages ==
    /\ Len(out) = Len(input) + Len(OutMessages)
    /\ SubSeq(out, 1, Len(input)) = input
    /\ C7_Emitted = C7_Expected
    /\ message_buffer = <<>>
    /\ input_left = <<>>

\* C7 as claimed: for every batch, also one without an image frame, the
\* output is the packets in input order followed by every buffered message,
\* in queue order; afterwards the buffer and the input queue are empty.
C7_Original == (op = "batch" /\ ~aborted) => C7_PacketsThenMessages

\* C7 as amended: that holds for a batch with at least one image frame; for a
\* batch without one the output is the packets alone, in input order, and the
\* message buffer is left as it was; the input queue is empty in both cases.
C7_BatchOutput ==
    (op = "batch" /\ ~aborted) =>
        IF InputFrames # <<>>
        THEN C7_PacketsThenMessages
        ELSE out = input /\ message_buffer = pre.buf /\ input_left = <<>>

\* a metadata packet and a frame came in while a message was waiting, and the
\* callback queued another
C7_Witness ==
    /\ op = "batch" /\ ~aborted
    /\ Len(input) = 2 /\ ~IsFrame(input[1]) /\ IsFrame(input[2])
    /\ pre.buf # <<>> /\ QueuedByCallback # <<>>
    /\ Len(out) = 4 /\ out[1] = input[1] /\ out[2] = input[2]
    /\ out[3].kind = pre.buf[1].kind /\ out[4].kind = QueuedByCallback[1].kind

(* -------------------------------- C8 ---------------------------------- *)
\* C8: image_metadata is what the first frame processed set it to, whatever
\* comes later, also when that frame has width 0: a later frame of another
\* width or height aborts and never overwrites it.
C8_MetadataSetOnceByFirstFrame ==
    first_frame # <<>> => image_metadata = first_frame[1]

(* -------------------------------- C9 ---------------------------------- *)
\* C9: every image frame a batch emits has the width and height of
\* image_metadata at the time the batch is emitted.
C9_EmittedFramesMatchMetadata ==
    (op = "batch" /\ ~aborted) =>
        \A k \in 1..Len(out) :
            IsFrame(out[k]) => /\ out[k].width = image_metadata.width
                               /\ out[k].height = image_metadata.height

(* -------------------------------- C10 --------------------------------- *)
C10_IsShutdownCall(c) == c.cmd = Obj([action |-> Str("shutdown")])
\* C10: the control callback gets {action: "shutdown"} exactly once, on the
\* first pull of the shutdown generator, which happens only after the main
\* stream has completed; never before, never on a later pull, never after the
\* main stream failed and never without a control callback.
C10_ShutdownCalledOnceOnFirstPull ==
    /\ shutdown_calls <= 1
    /\ (\E k \in 1..Len(ctrl_log) : C10_IsShutdownCall(ctrl_log[k]))
         => op = "pull" /\ pre.phase = "completed" /\ has_ctrl
    /\ (op = "pull" /\ pre.phase = "completed" /\ has_ctrl)
         => Len(ctrl_log) = 1 /\ C10_IsShutdownCall(ctrl_log[1]) /\ ctrl_log[1].present
    /\ (op = "pull" /\ pre.phase = "draining") => ctrl_log = <<>>
    /\ phase \in {"created", "running", "failed"} => shutdown_calls = 0
    /\ (phase = "completed" /\ ~aborted) => shutdown_calls = 0
    /\ phase \in {"draining", "done"} => shutdown_calls = (IF has_ctrl THEN 1 ELSE 0)
    /\ ~has_ctrl => shutdown_calls = 0

\* the generator completed on a later pull, after one shutdown call
C10_Witness ==
    /\ op = "pull" /\ pre.phase = "draining" /\ phase = "done"
    /\ shutdown_calls = 1 /\ out_done

(* -------------------------------- C11 --------------------------------- *)
\* what one pull of the generator must do with buffer buf: pass its first
\* message to on_next and keep the rest, or call on_complete when it is empty
C11_OnePull(buf) ==
    IF buf = <<>>
    THEN out = <<>> /\ out_done /\ phase = "done"
    ELSE out = <<buf[1]>> /\ ~out_done /\ phase = "draining"
             /\ message_buffer = Tail(buf)
\* the messages pending when the main stream completed, then the shutdown
\* response as a DEBUG message
C11_Pending ==
    [k \in 1..Len(pre.buf) |-> [kind |-> pre.buf[k].kind,
                                data |-> Unstamped(pre.buf[k].data)]]
    \o [k \in 1..Len(Answers) |-> [kind |-> DEBUG,
                                    data |-> Unstamped(Answers[k].response)]]
C11_Buffered ==
    [k \in 1..Len(shutdown_buf) |-> [kind |-> shutdown_buf[k].kind,
                                     data |-> Unstamped(shutdown_buf[k].data)]]
C11_PullByPull ==
    /\ (op = "pull" /\ ~aborted /\ pre.phase = "completed") =>
          C11_Buffered = C11_Pending /\ C11_OnePull(shutdown_buf)
    /\ (op = "pull" /\ ~aborted /\ pre.phase = "draining") => C11_OnePull(pre.buf)
    /\ (phase \in {"draining", "done"} /\ ~aborted) =>
          shutdown_buf = shutdown_out \o message_buffer
    /\ phase = "done" => shutdown_out = shutdown_buf /\ message_buffer = <<>>
    /\ out_done => phase = "done"
    /\ (op = "pull" /\ aborted) =>
          \E k \in 1..Len(ctrl_log) : ~is_null(ctrl_log[k].response)
                                        /\ ~is_object(ctrl_log[k].response)
\* C11: once the main stream has completed and downstream keeps pulling, the
\* shutdown generator passes the k messages its init step left in the buffer
\* (those pending, then the non-null shutdown response as DEBUG) to on_next,
\* one per pull and in buffer order, and calls on_complete on the first pull
\* that finds the buffer empty: the output completes after exactly those k
\* elements, unless the shutdown response is neither null nor an object, which
\* ends the process.
C11_ShutdownDrainsAndCompletes ==
    /\ []C11_PullByPull
    /\ (phase = "completed") ~> (phase = "done" \/ aborted)

\* the generator completed after the configure response and then the
\* shutdown response had been sent
C11_Witness ==
    /\ phase = "done" /\ out_done /\ Len(shutdown_out) = 2
    /\ Unstamped(shutdown_out[1].data) = Obj([pong |-> Bool(TRUE)])
    /\ Unstamped(shutdown_out[2].data) =
         Obj([pong |-> Bool(TRUE), request_id |-> Str("u")])

(* -------------------------------- C12 --------------------------------- *)
\* C12: configure(config) with a control callback calls it exactly once, before
\* it returns, with {action: "configure", body: B}, B being config when that
\* is not null and {} otherwise; a non-null response is appended to the
\* message buffer as a DEBUG message (a response that is no object ends the
\* process there), a null response appends nothing; nothing is emitted.
C12_ConfigureCallsBack ==
    (op = "configure" /\ has_ctrl) =>
        /\ Len(ctrl_log) = 1
        /\ ctrl_log[1].cmd =
             Obj([action |-> Str("configure"),
                  body |-> IF is_null(input) THEN EmptyObject ELSE input])
        /\ out = <<>>
        /\ aborted <=> (~is_null(ctrl_log[1].response) /\ ~is_object(ctrl_log[1].response))
        /\ ~aborted =>
             message_buffer =
                IF is_null(ctrl_log[1].response) THEN pre.buf
                ELSE Append(pre.buf, [data |-> ctrl_log[1].response, kind |-> DEBUG,
                                      id |-> ZeroId])

\* configure(null) reached the callback with an empty body and the answer
\* {pong: true} is waiting in the buffer
C12_Witness ==
    /\ op = "configure" /\ has_ctrl /\ is_null(input)
    /\ ctrl_log[1].cmd = Obj([action |-> Str("configure"), body |-> EmptyObject])
    /\ message_buffer = <<[data |-> Obj([pong |-> Bool(TRUE)]), kind |-> DEBUG,
                           id |-> ZeroId]>>

(* -------------------------------- C13 --------------------------------- *)
\* C13: configure(config) without a control callback ends the process when
\* config is not null, with no call, no output and no error passed
\* downstream; with a null config it does nothing: the buffer and the other
\* fields of the bot stay as they were.
C13_ConfigureWithoutCallback ==
    (op = "configure" /\ ~has_ctrl) =>
        /\ ctrl_log = <<>> /\ img_log = <<>> /\ out = <<>> /\ ~out_done
        /\ message_buffer = pre.buf
        /\ current_frame_id = pre.cur
        /\ image_metadata = pre.meta
        /\ aborted <=> ~is_null(input)
        /\ aborted => phase = "created"

\* a config object was given to a bot without a control callback
C13_Witness ==
    /\ op = "configure" /\ ~has_ctrl /\ input = Obj([k |-> Num(1)])
    /\ aborted /\ message_buffer = <<>>

(* -------------------------------- C14 --------------------------------- *)
\* nothing but packets has gone downstream, and nothing waits to
C14_NoMessage ==
    empty_bot =>
        /\ OutMessages = <<>>
        /\ message_buffer = <<>>
        /\ shutdown_out = <<>>
        /\ \A k \in 1..Len(ctrl_log) : is_null(ctrl_log[k].response)
        /\ op = "pull" => out = <<>> /\ out_done /\ phase = "done"
                           /\ pre.phase = "completed"
\* C14: a bot whose control callback answers null to every command and whose
\* image callback sends nothing emits no bot message, whatever the configure
\* call, the control inputs and the batches were; once the main stream has
\* completed, the shutdown generator completes on its first pull, so the
\* downstream completes.
C14_EmptyBotIsSilent ==
    /\ []C14_NoMessage
    /\ (empty_bot /\ phase = "completed") ~> (phase = "done" /\ ~aborted)

\* the empty bot was asked to shut down once and the generator completed on
\* its first pull
C14_Witness ==
    /\ empty_bot /\ op = "pull" /\ pre.phase = "completed" /\ phase = "done"
    /\ out_done /\ out = <<>>
    /\ Len(ctrl_log) = 1 /\ ctrl_log[1].cmd = Obj([action |-> Str("shutdown")])

(* -------------------------------- C15 --------------------------------- *)
\* whether the handler passes element el on to the control callback
C15_IsAddressed(el) ==
    is_object(el) /\ Has(el, "to") /\ bot_id # "" /\ Get(el, "to") = Str(bot_id)
\* the elements of the input that are not dropped, in array order
C15_Addressed == SelectSeq(Leaves(input), C15_IsAddressed)
\* the element that the n-th answer belongs to
C15_AnswerTo(n) ==
    LET calls == {k \in 1..Len(ctrl_log) : IsAnswer(ctrl_log[k])}
        k == CHOOSE j \in calls : Cardinality({i \in calls : i <= j}) = n
    IN ctrl_log[k].cmd
\* what the elements emit, one after the other: the first one that is not
\* dropped emits the messages that were waiting, and each one that is
\* answered emits its response
C15_Expected ==
    (IF C15_Addressed # <<>>
     THEN [k \in 1..Len(pre.buf) |-> [kind |-> pre.buf[k].kind,
                                      data |-> Unstamped(pre.buf[k].data)]]
     ELSE <<>>)
    \o [n \in 1..Len(Answers) |->
          [kind |-> CONTROL,
           data |-> Unstamped(IF Has(C15_AnswerTo(n), "request_id")
                              THEN Put(Answers[n].response, "request_id",
                                       Get(C15_AnswerTo(n), "request_id"))
                              ELSE Answers[n].response)]]
C15_Emitted ==
    [k \in 1..Len(out) |-> [kind |-> out[k].kind, data |-> Unstamped(out[k].data)]]
\* C15: a control input that is an array is handled element by element in
\* array order, an element that is an array in the same way: the control
\* callback gets the elements that are not dropped, one call each and in that
\* order, and the output is the outputs of the elements one after the other;
\* a dropped element adds nothing and later elements are still handled.
C15_ArrayElementByElement ==
    (op = "control" /\ is_array(input) /\ has_ctrl) =>
        /\ ~aborted =>
              /\ Len(ctrl_log) = Len(C15_Addressed)
              /\ \A k \in 1..Len(ctrl_log) : ctrl_log[k].cmd = C15_Addressed[k]
              /\ C15_Emitted = C15_Expected
              /\ message_buffer = (IF C15_Addressed # <<>> THEN <<>> ELSE pre.buf)
        /\ aborted =>
              /\ Len(ctrl_log) <= Len(C15_Addressed)
              /\ \A k \in 1..Len(ctrl_log) : ctrl_log[k].cmd = C15_Addressed[k]
              /\ LET last == ctrl_log[Len(ctrl_log)].response
                 IN ~is_null(last) /\ ~is_object(last)

\* [[5, ping with request_id r], ping] was answered with {pong: true} and
\* then with another object: two CONTROL messages in that order, the first
\* one with request_id r
C15_Witness ==
    /\ op = "control" /\ input = NestedControl /\ ~aborted /\ pre.buf = <<>>
    /\ Len(out) = 2
    /\ Unstamped(out[1].data) = Obj([pong |-> Bool(TRUE), request_id |-> Str("r")])
    /\ Unstamped(out[2].data) = Obj([pong |-> Bool(TRUE), request_id |-> Str("u")])
    /\ Len(ctrl_log) = 2

(* -------------------------------- C16 --------------------------------- *)
C16_SentNonObject(c) == ~is_object(c.data)
C16_AnsweredNonObject(c) == c.present /\ ~is_null(c.response) /\ ~is_object(c.response)
\* the bot with a message of non-object data in its buffer
C16_BadBuffer ==
    [BotState EXCEPT !.buf = Append(@, [data |-> Str("oops"), kind |-> DEBUG,
                                        id |-> ZeroId])]
\* C16: no message whose data is not an object is emitted or buffered. A
\* queue_message call with such data, and a configure, control or shutdown
\* response that is neither null nor an object, end the process: the
\* operation emits nothing, neither a message nor a terminal signal, and the
\* stream does not fail. Draining a buffer that holds such a message ends the
\* process too.
C16_OnlyObjectsAreEmitted ==
    /\ \A k \in 1..Len(OutMessages) : is_object(OutMessages[k].data)
    /\ \A k \in 1..Len(shutdown_out) : is_object(shutdown_out[k].data)
    /\ \A k \in 1..Len(message_buffer) : is_object(message_buffer[k].data)
    /\ (SelectSeq(QueuedByCallback, C16_SentNonObject) # <<>>
          \/ SelectSeq(ctrl_log, C16_AnsweredNonObject) # <<>>)
         => aborted /\ op \in {"batch", "configure", "control", "pull"}
    /\ aborted => out = <<>> /\ ~out_done /\ phase = pre.phase /\ phase # "failed"
    /\ prepare_message_buffer_for_downstream(C16_BadBuffer).dead

\* the shutdown callback answered 7 while a message was waiting: the process
\* ended and nothing was emitted
C16_Witness ==
    /\ op = "pull" /\ aborted /\ pre.buf # <<>>
    /\ Len(ctrl_log) = 1 /\ ctrl_log[1].response = Num(7)
    /\ out = <<>> /\ shutdown_out = <<>>

(* -------------------------------- C17 --------------------------------- *)
\* where event ev is in the recorder's log
C17_At(ev) == {k \in 1..Len(rec.log) : rec.log[k] = ev}
C17_SinkTerminals == {k \in 1..Len(rec.log) : rec.log[k][1] \in {"sink.on_complete", "sink.on_error"}}
\* C17: whatever the encoded stream delivers and whoever calls stop() (the
\* signal handler, on_complete or on_error, the destructor), the sink gets at
\* most one terminal signal and the subscription is cancelled at most once; a
\* stop() called when an earlier one has emptied both optionals goes through
\* its two tests and cancels nothing and signals nothing.
C17_StopIsIdempotent ==
    rec.pc # "none" =>
        /\ Cardinality(C17_SinkTerminals) <= 1
        /\ Cardinality(C17_At(<<"subscription.cancel">>)) <= 1
        /\ (~rec.subscription /\ ~rec.sink) =>
              LET t == [fn |-> "destructor", pc |-> "stop", arg |-> NoError]
                  r1 == Logged(rec, <<"stop">>)
              IN /\ stop(rec, t) = {At(r1, t, "test_subscription")}
                 /\ stop(r1, At(r1, t, "test_subscription").t) = {At(r1, t, "test_sink")}
                 /\ stop(r1, At(r1, t, "test_sink").t) = {At(r1, t, "stopped")}

(* -------------------------------- C20 --------------------------------- *)
C20_SignalsAt == {k \in 1..Len(rec.log) : rec.log[k][1] = "signal"}
C20_Has(ev) == \E k \in 1..Len(rec.log) : rec.log[k] = ev
\* the I/O loop has executed client.stop() after the signal at i
C20_Served(i) == \E k \in i..Len(rec.log) : rec.log[k] = <<"client.stop">>
\* a handler that is back from stop() and about to request the client's stop
\* finds the stream stopped
C20_StoppedBeforeRequest ==
    \A k \in DOMAIN rec.handlers :
        rec.handlers[k].pc = "stopped" =>
            /\ rec.handlers[k].arg \in Signals
            /\ C20_Has(<<"subscription.cancel">>)
            /\ C20_Has(<<"sink.on_complete">>)
            /\ ~rec.subscription /\ ~rec.sink
            /\ rec.upstream \notin {"subscribing", "active"}
\* C20: in the standalone recorder each SIGINT, SIGTERM or SIGQUIT stops the
\* video stream first (the subscription has been cancelled and the sink
\* completed when the handler goes on) and then posts the request to stop the
\* bus client; with a bus client, the I/O loop then executes client.stop().
C20_SignalStopsStreamThenClient ==
    /\ []C20_StoppedBeforeRequest
    /\ (rec.pc # "none" /\ rec.client /\ \E i \in C20_SignalsAt : ~C20_Served(i))
          ~> (\A i \in C20_SignalsAt : C20_Served(i))

(* -------------------------------- C18 --------------------------------- *)
\* C18: for every position p with gen in [0, 2^32-1] and pos in [0, 2^64-1],
\* parse(p.str()) is a position with the same gen and the same pos.
C18_RoundTrip ==
    (cp.pc = "parsed" /\ cp.from # <<>>) =>
        /\ ~cp.result.aborted
        /\ cp.result.gen = cp.from[1].gen
        /\ cp.result.pos = cp.from[1].pos

\* the largest position was written as 4294967295:18446744073709551615 and
\* read back
C18_Witness ==
    /\ cp.pc = "parsed" /\ cp.from # <<>>
    /\ cp.from[1].gen = <<LimbBase - 1, LimbBase - 1>>
    /\ cp.from[1].pos = ULLONG_MAX
    /\ cp.text = <<"4", "2", "9", "4", "9", "6", "7", "2", "9", "5", ":",
                   "1", "8", "4", "4", "6", "7", "4", "4", "0", "7", "3", "7", "0", "9",
                   "5", "5", "1", "6", "1", "5">>
    /\ cp.result = Position(cp.from[1].gen, cp.from[1].pos)

(* -------------------------------- C19 --------------------------------- *)
\* a digit string without its leading zeros
RECURSIVE C19_Stripped(_)
C19_Stripped(ds) ==
    IF Len(ds) > 1 /\ ds[1] = "0" THEN C19_Stripped(Tail(ds)) ELSE ds
\* whether digit string a, of the length of b, is at most b
RECURSIVE C19_LeqSameLen(_, _)
C19_LeqSameLen(a, b) ==
    IF a = <<>> THEN TRUE
    ELSE IF DigitVal(a[1]) # DigitVal(b[1]) THEN DigitVal(a[1]) < DigitVal(b[1])
    ELSE C19_LeqSameLen(Tail(a), Tail(b))
\* whether ds is a decimal numeral of a value that is at most that of max
C19_NumeralUpTo(ds, max) ==
    /\ ds # <<>>
    /\ \A k \in 1..Len(ds) : ds[k] \in Digits
    /\ LET a == C19_Stripped(ds)
       IN Len(a) < Len(max) \/ (Len(a) = Len(max) /\ C19_LeqSameLen(a, max))
C19_Max32 == <<"4", "2", "9", "4", "9", "6", "7", "2", "9", "5">>
C19_Max64 == <<"1", "8", "4", "4", "6", "7", "4", "4", "0", "7", "3", "7", "0", "9",
               "5", "5", "1", "6", "1", "5">>
\* "<gen>:<pos>" with gen an unsigned 32-bit decimal and pos an unsigned
\* 64-bit decimal
C19_WellFormed(text) ==
    \E c \in 1..Len(text) :
        /\ text[c] = ":"
        /\ C19_NumeralUpTo(SubSeq(text, 1, c - 1), C19_Max32)
        /\ C19_NumeralUpTo(SubSeq(text, c + 1, Len(text)), C19_Max64)
\* C19: parse returns (0,0) for every string that is not of the form
\* "<gen>:<pos>" (an empty part, a sign, white space, trailing characters, a
\* gen above 2^32-1), and neither aborts nor returns another position.
C19_MalformedParsesToZero ==
    (cp.pc = "parsed" /\ ~C19_WellFormed(cp.text)) => cp.result = ZeroPosition

(* -------------------------------- C21 --------------------------------- *)
\* the subscriptions made so far and not unsubscribed, in the order made
C21_Live == SelectSeq(rc.made, LAMBDA si : si.sub \notin rc.unsubscribed)
\* C21: when the delegate of the resilient client reports an error, the
\* wrapper stops it, calls the factory again, starts the fresh delegate and
\* re-issues to it every subscription made so far and not unsubscribed, each
\* exactly once, in the order the subscriptions were made; the table itself
\* is unchanged. When the fresh delegate fails to start, the failure goes to
\* the outer error_callbacks and nothing is replayed.
C21_ErrorRestartsAndReplays ==
    (rc.pc # "none" /\ rc.op = "on_error") =>
        LET n == rc.built
            begun == <<<<"stop", n - 1>>, <<"factory", n>>, <<"start", n>>>>
        IN  /\ n >= 2 /\ rc.client = n
            /\ rc.subscriptions = rc.before
            /\ SubSeq(rc.calls, 1, 3) = begun
            /\ IF rc.pc = "failed"
               THEN /\ Len(rc.calls) = 4
                    /\ rc.calls[4][1] = "error_callbacks.on_error"
               ELSE rc.calls = begun \o [k \in 1..Len(C21_Live) |->
                                            <<"subscribe", n, C21_Live[k]>>]
\* a second restart replays two subscriptions on different channels after a
\* third one was unsubscribed
C21_Witness ==
    /\ rc.pc = "started" /\ rc.op = "on_error" /\ rc.restarts = 2
    /\ Len(C21_Live) = 2 /\ C21_Live[1].channel # C21_Live[2].channel
    /\ rc.unsubscribed = {1}
    /\ Len(rc.calls) = 5

(* -------------------------------- C22 --------------------------------- *)
\* s with every "/" replaced by "{slash}" and every other character kept
RECURSIVE C22_Image(_)
C22_Image(s) ==
    IF s = <<>> THEN <<>>
    ELSE (IF Head(s) = "/" THEN <<"{", "s", "l", "a", "s", "h", "}">> ELSE <<Head(s)>>)
         \o C22_Image(Tail(s))
\* the number of "/" in s
C22_Slashes(s) == Cardinality({k \in 1..Len(s) : s[k] = "/"})
\* what a finished call returned
C22_Returned ==
    (es.pc = "done") =>
        /\ es.result = C22_Image(es.s)
        /\ \A k \in 1..Len(es.result) : es.result[k] # "/"
        /\ Len(es.result) = Len(es.s) + 6 * C22_Slashes(es.s)
        /\ es.turns = C22_Slashes(es.s)
        /\ escape_slashes(es.s) = es.result
\* C22: every call of escape_slashes(s) returns, and it returns s with each
\* "/" replaced by "{slash}" and every other character kept in order: the
\* result has no "/" and its length is |s| + 6 * (number of "/" in s).
C22_EscapeSlashesReturnsImage ==
    /\ [](es.pc # "none" => C22_Returned)
    /\ ((es.pc = "loop") ~> (es.pc = "done"))
\* a name with two adjacent slashes, a letter and a slash at the end was
\* escaped in three turns of the loop
C22_Witness ==
    /\ es.pc = "done" /\ es.s = <<"/", "/", "a", "/">>
    /\ es.turns = 3 /\ Len(es.result) = 22

(* -------------------------------- C23 --------------------------------- *)
\* what the sink was told, in order
C23_SinkEvents ==
    SelectSeq(rec.log, LAMBDA e : e[1] \in {"sink.on_subscribe", "sink.on_next",
                                            "sink.on_complete", "sink.on_error"})
\* the packets the encoded stream has delivered, in order of arrival
C23_Forwarded == [k \in 1..rec.delivered |-> <<"sink.on_next", PacketNames[k]>>]
\* the packets the sink was given
C23_Packets == SelectSeq(rec.log, LAMBDA e : e[1] = "sink.on_next")
\* C23: the video_stream forwards the subscriber protocol to its sink in
\* order: on_subscribe once and before everything else, then the packets of
\* the upstream in arrival order, every one of them once its on_next is over,
\* then at most one terminal, and nothing after the terminal.
C23_SinkSeesProtocolInOrder ==
    (rec.pc \notin {"none", "start"}) =>
        /\ C23_SinkEvents \in
              {<<>>} \cup
              {<<<<"sink.on_subscribe">>>> \o SubSeq(C23_Forwarded, 1, n) \o tail :
                  n \in 0..rec.delivered,
                  tail \in {<<>>, <<<<"sink.on_complete">>>>, <<<<"sink.on_error">>>>}}
        /\ Len(C23_Packets) >=
              rec.delivered - (IF rec.worker.fn = "on_next" THEN 1 ELSE 0)

(* -------------------------------- C24 --------------------------------- *)
\* whether the recorder made call ev on one of its neighbours
C24_Did(ev) == \E i \in 1..Len(rec.log) : rec.log[i] = ev
\* C24: when the upstream of the video_stream reports on_error(ec), the sink
\* is terminated with on_error(ec) and not with on_complete, and the done
\* callback of the outer runner gets the same ec: so it is when on_error has
\* returned.
C24_ErrorReachesSinkAndRunner ==
    (rec.pc # "none" /\ rec.upstream = "failed" /\ rec.worker = Idle) =>
        \E ec \in StreamErrors :
            /\ C24_Did(<<"sink.on_error", ec>>)
            /\ ~C24_Did(<<"sink.on_complete">>)
            /\ C24_Did(<<"done", ec>>)

(* -------------------------------- C25 --------------------------------- *)
\* where in the log the done callback was invoked
C25_DoneAt == {i \in 1..Len(rec.log) : rec.log[i][1] = "done"}
\* C25: a terminal signal of the upstream first cancels and releases the
\* subscription and completes the sink, and only then invokes the done
\* callback, once, with the upstream's error condition (the empty one after
\* on_complete); a stop() made by the signal handler or the destructor does
\* not invoke it, so without a terminal signal it is never invoked.  The
\* callback has been invoked when the terminal call is over.
C25_DoneOnceAfterRelease ==
    (rec.pc # "none") =>
        /\ Cardinality(C25_DoneAt) <= 1
        /\ rec.upstream \notin {"completed", "failed"} => C25_DoneAt = {}
        /\ (rec.upstream \in {"completed", "failed"} /\ (rec.worker = Idle \/ rec.dead))
              => C25_DoneAt # {}
        /\ \A d \in C25_DoneAt :
              /\ \E c \in 1..(d - 1) : rec.log[c] = <<"subscription.cancel">>
              /\ \E k \in 1..(d - 1) : rec.log[k] = <<"sink.on_complete">>
              /\ rec.upstream = "completed" => rec.log[d] = <<"done", NoError>>
              /\ rec.upstream = "failed" => rec.log[d][2] \in StreamErrors

(* -------------------------------- C29 --------------------------------- *)
\* C29: in one run of the standalone recorder the bus client's stop() is
\* executed at most once, whatever the order of stream completion, stream
\* failure and signals, a signal after the end of the stream and repeated
\* signals included.
C29_ClientStoppedAtMostOnce ==
    (rec.pc # "none") =>
        Cardinality({i \in 1..Len(rec.log) : rec.log[i] = <<"client.stop">>}) <= 1

(* -------------------------------- C28 --------------------------------- *)
\* C28: the bot instance never invokes an absent control callback: in
\* configure, for a control message addressed to the bot and in the shutdown
\* generator the callback is called only if the descriptor provides one.
C28_AbsentCallbackNeverInvoked ==
    \A k \in 1..Len(ctrl_log) : ctrl_log[k].present

(* -------------------------------- C27 --------------------------------- *)
\* the frame ids of the image frames of the last batch, in batch order
C27_BatchFrames == [k \in 1..Len(InputFrames) |-> [id |-> InputFrames[k].id]]
\* C27: for a batch with at least one image frame the image callback is
\* invoked exactly once, with all the frames of the batch in batch order and
\* with their frame ids; for a batch without an image frame it is not invoked
\* and the message buffer is left as it was. (A batch that ends the process,
\* by a frame of another geometry or a message that is no object, invokes it
\* at most once.)
C27_ImageCallbackOncePerBatch ==
    (op = "batch") =>
        /\ Len(img_log) <= 1
        /\ \A k \in 1..Len(img_log) : img_log[k].frames = C27_BatchFrames
        /\ ~aborted =>
              IF InputFrames # <<>>
              THEN Len(img_log) = 1
              ELSE img_log = <<>> /\ message_buffer = pre.buf
\* a batch of two frames with different ids was given to the callback while a
\* message was waiting in the buffer
C27_Witness ==
    /\ op = "batch" /\ ~aborted /\ Len(input) = 2
    /\ Len(InputFrames) = 2 /\ InputFrames[1].id # InputFrames[2].id
    /\ Len(img_log) = 1 /\ Len(img_log[1].frames) = 2
    /\ img_log[1].frames[1].id = InputFrames[1].id
    /\ pre.buf # <<>>

(* -------------------------------- C26 --------------------------------- *)
\* the messages the last operation had to account for, in queue order: those
\* waiting in the buffer when it began, then those queue_message accepted
C26_Due == pre.buf \o queue_log
\* C26: no message is lost or duplicated. In every operation (configure, a
\* batch, a control input, a pull of the shutdown generator) the messages
\* waiting before it followed by the messages queue_message accepted in it
\* are, in that order, the messages it emits followed by the messages it
\* leaves in the buffer; an emitted message is the queued one stamped; a
\* message left waiting is as queued until the shutdown generator has stamped
\* the buffer, and stamped from then on; between operations the buffer does
\* not change; and when the shutdown generator has completed the buffer is
\* empty and the generator has emitted exactly the buffer it started with.
\* So over a run that ends with a drained shutdown generator every accepted
\* message is emitted once, stamped, in the order of queueing.
C26_NoMessageLostOrDuplicated ==
    /\ (op = "none" /\ ~aborted) => (pre.buf = message_buffer /\ queue_log = <<>>)
    /\ (op # "none" /\ ~aborted) =>
          LET n == Len(OutMessages)
          IN  /\ Len(C26_Due) = n + Len(message_buffer)
              /\ \A k \in 1..n : OutMessages[k] = Stamp(C26_Due[k])
              /\ \A k \in 1..Len(message_buffer) :
                    message_buffer[k] = IF phase \in {"draining", "done"}
                                        THEN Stamp(C26_Due[n + k])
                                        ELSE C26_Due[n + k]
    /\ (phase = "done" /\ ~aborted) =>
          /\ message_buffer = <<>>
          /\ shutdown_out = shutdown_buf
\* the shutdown generator has completed after emitting two messages: one that
\* had been waiting since configure and the answer to the shutdown command
C26_Witness ==
    /\ phase = "done" /\ ~aborted /\ op = "pull" /\ out_done
    /\ Len(shutdown_out) = 2
    /\ shutdown_out[1].kind = DEBUG /\ shutdown_out[2].kind = DEBUG
    /\ message_buffer = <<>>

====
